---- MODULE Spec2Model ----
(***************************************************************************)
(* The LMTP server session of lmtp/commands.c (src/unnamed/part_000): the  *)
(* command handlers, the recipient resolver, the concurrency-broker        *)
(* (anvil) round trip and the DATA phase with the local delivery fan-out.  *)
(*                                                                         *)
(* One LMTP connection is modelled.  The peer writes command lines to the  *)
(* socket (wire); client_input reads them into the stream buffer (input)   *)
(* and client_input_handle handles them one line per step while its loop   *)
(* runs (handling).  Every reply line is appended to output together with  *)
(* the number of the command line that caused it.                          *)
(***************************************************************************)
EXTENDS Integers, Sequences, FiniteSets, TLC

VARIABLES
    trusted,            \* client_is_trusted(client)
    set_lmtp_proxy,     \* lmtp_set->lmtp_proxy
    set_limit,          \* lmtp_set->lmtp_user_concurrency_limit
    local_port,         \* client->local_port
    lhlo,               \* client->lhlo
    proxy_ttl,          \* client->proxy_ttl
    proxy_timeout_secs, \* client->proxy_timeout_secs
    remote_ip,          \* client->remote_ip
    remote_port,        \* client->remote_port
    mail_from,          \* client->state.mail_from
    mail_body_7bit,     \* client->state.mail_body_7bit
    mail_body_8bitmime, \* client->state.mail_body_8bitmime
    rcpt_to,            \* client->state.rcpt_to
    proxy,              \* client->proxy
    anvil_query,        \* the recipient whose rcpt->anvil_query is pending
    io,                 \* client->io: which input callback is installed
    handling,           \* the loop of client_input_handle is running
    proxy_running,      \* lmtp_proxy_start was called, finish callback due
    destroyed,          \* client_destroy was called
    wire,               \* command lines sent by the peer, not yet read
    input,              \* command lines in the stream buffer client->input
    nsent,              \* number of command lines the peer has sent
    output,             \* reply lines written to client->output
    ext,                \* directory lookups and broker messages issued
    parse_args,         \* the args given to client_proxy_rcpt_parse_fields
    parse_ret,          \* what that call returned and left in *set, *address
    added_headers,      \* client->state.added_headers
    lmtp_hdr_delivery_address,
                        \* lmtp_set->parsed_lmtp_hdr_delivery_address
    mail_max_lock_timeout,
                        \* mail_set->mail_max_lock_timeout as configured
    lock_timeout,       \* the mail_max_lock_timeout a delivery is made with
    mail_data,          \* client->state.mail_data, the in-memory buffer
    mail_data_output,   \* client->state.mail_data_output, the temporary file
    body_read,          \* the data read from client->dot_input so far
    add_ret,            \* what the last client_input_add returned
    data_input,         \* the stream client_get_input has built
    fan_pc,             \* where client_input_data_write_local is
    rcpt_idx,           \* client->state.rcpt_idx
    src_mail,           \* src_mail of client_input_data_write_local
    first_saved_mail,   \* client->state.first_saved_mail
    live_users,         \* the recipients whose mail_user is referenced
    freed_mails,        \* the mails freed by mail_free
    deliveries,         \* the calls of mail_deliver made so far
    protocol,           \* lmtp_client->protocol
    input_state,        \* lmtp_client->input_state
    global_fail_string, \* lmtp_client->global_fail_string
    recipients,         \* lmtp_client->recipients
    rcpt_next_receive_idx,
                        \* lmtp_client->rcpt_next_receive_idx
    rcpt_next_data_idx, \* lmtp_client->rcpt_next_data_idx
    rcpt_next_send_idx, \* lmtp_client->rcpt_next_send_idx
    lmtp_data_input,    \* lmtp_client->data_input is not NULL
    fd,                 \* lmtp_client->fd: the state of the connection
    lmtp_output,        \* what was written to lmtp_client->output
    lmtp_input,         \* reply lines in lmtp_client->input, not yet read
    lmtp_io,            \* lmtp_client->io: which callback is installed
    output_last,        \* lmtp_client->output_last
    output_finished,    \* lmtp_client->output_finished
    data_left,          \* the bytes of data_input not yet read
    body_output,        \* the bytes lmtp_client_send_data has sent
    callbacks,          \* the rcpt_to and data callbacks made so far
    send_called,        \* the caller has called lmtp_client_send
    upstream,           \* the server at the other end of the connection
    panicked,           \* the process has aborted in the outbound client
    puser_drivers,      \* puser->drivers: the drivers configured
    ptxns,              \* the push-notification transactions created
    hook_calls          \* the begin_txn and end_txn calls made so far

vars == <<trusted, set_lmtp_proxy, set_limit, lhlo, proxy_ttl,
          proxy_timeout_secs, remote_ip, remote_port, mail_from,
          mail_body_7bit, mail_body_8bitmime, rcpt_to, proxy, anvil_query,
          io, handling, proxy_running, destroyed, wire, input, nsent,
          output, ext, local_port, parse_args, parse_ret, added_headers,
          lmtp_hdr_delivery_address, mail_max_lock_timeout, lock_timeout,
          mail_data, mail_data_output, body_read, add_ret, data_input,
          fan_pc, rcpt_idx, src_mail, first_saved_mail, live_users,
          freed_mails, deliveries, protocol, input_state,
          global_fail_string, recipients, rcpt_next_receive_idx,
          rcpt_next_data_idx, rcpt_next_send_idx, lmtp_data_input, fd,
          lmtp_output, lmtp_input, lmtp_io, output_last, output_finished,
          data_left, body_output, callbacks, send_called, upstream,
          panicked, puser_drivers, ptxns, hook_calls>>

settings == <<trusted, set_lmtp_proxy, set_limit, local_port,
              lmtp_hdr_delivery_address, mail_max_lock_timeout>>
calls == <<parse_args, parse_ret, lock_timeout>>
spool == <<mail_data, mail_data_output, body_read, add_ret, data_input>>
fanout == <<fan_pc, rcpt_idx, src_mail, first_saved_mail, live_users,
            freed_mails, deliveries>>
lmtp_client == <<protocol, input_state, global_fail_string, recipients,
                 rcpt_next_receive_idx, rcpt_next_data_idx,
                 rcpt_next_send_idx, lmtp_data_input, fd, lmtp_output,
                 lmtp_input, lmtp_io, output_last, output_finished,
                 data_left, body_output, callbacks, send_called, upstream,
                 panicked>>
push_notification == <<puser_drivers, ptxns, hook_calls>>
session == <<proxy_ttl, proxy_timeout_secs, remote_ip, remote_port>>
mailst == <<mail_from, mail_body_7bit, mail_body_8bitmime, added_headers>>

(***************************************************************************)
(* Bounds of the model.                                                    *)
(***************************************************************************)
MaxCmds == 4
MaxPending == 2
MaxLimit == 1

NULL == "NULL"

\* A pointer to an object: <<>> when it is NULL, <<object>> otherwise.
NoObject == <<>>
Object(x) == <<x>>

(***************************************************************************)
(* The environment of the session.                                         *)
(***************************************************************************)
local_ip == "10.0.0.1"
LMTP_PROXY_DEFAULT_TTL == 5
LMTP_PROXY_DEFAULT_TIMEOUT_MSECS == 125000

\* Values a directory field or an XCLIENT parameter can carry as text.
IpLiterals == {"10.0.0.1", "10.0.0.2"}
PortStrings == {"24", "25", "2525"}

\* net_addr2ip: the text is an IP literal (a host name is not).
net_addr2ip_ok(host) == host \in IpLiterals

\* net_str2port: the text is a port number; its value.
net_str2port_ok(value) == value \in PortStrings
net_str2port(value) ==
    CASE value = "24" -> 24
      [] value = "25" -> 25
      [] value = "2525" -> 2525
      [] OTHER -> 0

\* str_to_uint: the text is an unsigned decimal number; its value.
UintStrings == {"0", "1", "2", "3", "4", "30"}
str_to_uint_ok(value) == value \in UintStrings
str_to_uint(value) ==
    CASE value = "0" -> 0
      [] value = "1" -> 1
      [] value = "2" -> 2
      [] value = "3" -> 3
      [] value = "4" -> 4
      [] value = "30" -> 30
      [] OTHER -> 0

(***************************************************************************)
(* client_proxy_rcpt_parse_fields: the passdb fields of a recipient, read  *)
(* in order into the proxy settings of the recipient.                      *)
(***************************************************************************)
Field(k, v) == [key |-> k, value |-> v]

\* Mutant of parse_field: a protocol field sets the default port of the
\* protocol whether or not a port field came before it.
parse_field_forgets_port(f, st) ==
    CASE f.key = "proxy" -> [st EXCEPT !.proxying = TRUE]
      [] f.key = "host" -> [st EXCEPT !.set.host = f.value]
      [] f.key = "port" ->
            IF ~net_str2port_ok(f.value)
            THEN [st EXCEPT !.failed = TRUE]
            ELSE [st EXCEPT !.set.port = net_str2port(f.value),
                            !.port_set = TRUE]
      [] f.key = "proxy_timeout" ->
            IF ~str_to_uint_ok(f.value)
            THEN [st EXCEPT !.failed = TRUE]
            ELSE [st EXCEPT !.set.timeout_msecs = str_to_uint(f.value) * 1000]
      [] f.key = "protocol" ->
            IF f.value = "lmtp"
            THEN [st EXCEPT !.set.protocol = "lmtp", !.set.port = 24]
            ELSE IF f.value = "smtp"
            THEN [st EXCEPT !.set.protocol = "smtp", !.set.port = 25]
            ELSE [st EXCEPT !.failed = TRUE]
      [] f.key \in {"user", "destuser"} -> [st EXCEPT !.address = f.value]
      [] OTHER -> st

\* One iteration of the loop over the fields.
parse_field(f, st) ==
    CASE f.key = "proxy" -> [st EXCEPT !.proxying = TRUE]
      [] f.key = "host" -> [st EXCEPT !.set.host = f.value]
      [] f.key = "port" ->
            IF ~net_str2port_ok(f.value)
            THEN [st EXCEPT !.failed = TRUE]
            ELSE [st EXCEPT !.set.port = net_str2port(f.value),
                            !.port_set = TRUE]
      [] f.key = "proxy_timeout" ->
            IF ~str_to_uint_ok(f.value)
            THEN [st EXCEPT !.failed = TRUE]
            ELSE [st EXCEPT !.set.timeout_msecs = str_to_uint(f.value) * 1000]
      [] f.key = "protocol" ->
            IF f.value = "lmtp"
            THEN [st EXCEPT !.set.protocol = "lmtp",
                            !.set.port = IF st.port_set THEN st.set.port ELSE 24]
            ELSE IF f.value = "smtp"
            THEN [st EXCEPT !.set.protocol = "smtp",
                            !.set.port = IF st.port_set THEN st.set.port ELSE 25]
            ELSE [st EXCEPT !.failed = TRUE]
      [] f.key \in {"user", "destuser"} -> [st EXCEPT !.address = f.value]
      [] OTHER -> st

RECURSIVE parse_fields_loop(_, _, _)
parse_fields_loop(args, i, st) ==
    IF st.failed \/ i > Len(args)
    THEN st
    ELSE parse_fields_loop(args, i + 1, parse_field(args[i], st))

\* The settings a recipient starts with (client_proxy_rcpt, before parsing).
proxy_rcpt_settings_init ==
    [host |-> NULL, port |-> local_port, protocol |-> "lmtp",
     timeout_msecs |-> LMTP_PROXY_DEFAULT_TIMEOUT_MSECS]

\* The result of client_proxy_rcpt_parse_fields: ok is its return value,
\* set and address are what it leaves in *set and *address.
client_proxy_rcpt_parse_fields(args, username) ==
    LET st == parse_fields_loop(args, 1,
                  [set |-> proxy_rcpt_settings_init, address |-> username,
                   proxying |-> FALSE, port_set |-> FALSE, failed |-> FALSE])
    IN  [ok |-> ~st.failed /\ st.proxying /\ st.set.host # NULL,
         set |-> st.set, address |-> st.address]

\* Mutant of client_proxy_is_ourself: the host is compared with the address
\* of the peer instead of the server's own.
client_proxy_is_ourself_remote(set) ==
    /\ set.port = local_port
    /\ net_addr2ip_ok(set.host)
    /\ set.host = remote_ip

\* client_proxy_is_ourself: the destination is this server's own address.
client_proxy_is_ourself(set) ==
    /\ set.port = local_port
    /\ net_addr2ip_ok(set.host)
    /\ set.host = local_ip

(***************************************************************************)
(* Command lines the peer sends.  A line is [kind, arg]; the lines are     *)
(* numbered 1, 2, ... in the order they are sent.                          *)
(***************************************************************************)
Cmd(k, a) == [kind |-> k, arg |-> a]

Senders == {"s1"}
Users == {"u1"}
LhloArgs == {"h1"}
MailArgs ==
    {[ok |-> TRUE, addr |-> a, params |-> <<>>] : a \in Senders}
    \cup {[ok |-> FALSE, addr |-> "", params |-> <<>>]}
RcptArgs ==
    {[ok |-> TRUE, addr |-> u, params |-> <<>>] : u \in Users}
XclientArgs ==
    {<<Field("TTL", v)>> : v \in {"1", "2"}}

PeerCmds ==
    {Cmd("LHLO", a) : a \in LhloArgs}
    \cup {Cmd("MAIL", a) : a \in MailArgs}
    \cup {Cmd("RCPT", a) : a \in RcptArgs}
    \cup {Cmd("XCLIENT", a) : a \in XclientArgs}
    \cup {Cmd(k, "") : k \in {"DATA", "RSET", "NOOP", "QUIT"}}

\* The number of the line at the head of the stream buffer, and of the line
\* handled last.
HeadNo == nsent - Len(wire) - Len(input) + 1
LastNo == nsent - Len(wire) - Len(input)

\* A reply line: the command line it answers, its text, and the RCPT line of
\* the recipient it is about (0 when it is about no recipient).
Reply(n, code, rcpt) == [cmd |-> n, code |-> code, rcpt |-> rcpt]

\* client_send_line for each line of rs, in order.
client_send_lines(rs) == output' = output \o rs

(***************************************************************************)
(* client.c: the input loop, the input callback and the state reset.       *)
(***************************************************************************)
\* client_state_reset: the envelope is dropped, the proxy is deinitialised.
client_state_reset ==
    /\ mail_from' = NULL
    /\ mail_body_7bit' = FALSE
    /\ mail_body_8bitmime' = FALSE
    /\ added_headers' = NoObject
    /\ rcpt_to' = <<>>
    /\ proxy' = NoObject

\* client_io_reset: the command input callback is (re)installed.
client_io_reset == io' = "client_input"

\* client_input_handle, after the handler of the head line returned ret: the
\* line is consumed, and the loop goes on to the next buffered line unless
\* ret < 0.
line_done(ret) ==
    /\ input' = Tail(input)
    /\ handling' = (ret >= 0 /\ Tail(input) # <<>>)

\* client_input_handle called from a callback: the buffered lines, if any,
\* are handled.
client_input_handle == handling' = (input # <<>>)

\* The handler of a `kind` line is called on the head of the stream buffer.
Ready(kind) ==
    /\ ~destroyed
    /\ handling
    /\ input # <<>>
    /\ Head(input).kind = kind

\* The session after client_create, but for proxy_timeout_secs.
SessionIdle ==
    /\ lhlo = NULL
    /\ proxy_ttl = LMTP_PROXY_DEFAULT_TTL
    /\ remote_ip = "10.0.0.9"
    /\ remote_port = 50000
    /\ mail_from = NULL
    /\ mail_body_7bit = FALSE
    /\ mail_body_8bitmime = FALSE
    /\ rcpt_to = <<>>
    /\ proxy = NoObject
    /\ anvil_query = NoObject
    /\ io = "client_input"
    /\ handling = FALSE
    /\ proxy_running = FALSE
    /\ destroyed = FALSE
    /\ wire = <<>>
    /\ input = <<>>
    /\ nsent = 0
    /\ output = <<>>
    /\ ext = <<>>

\* The session after client_create.
SessionCreated ==
    /\ proxy_timeout_secs = 0
    /\ SessionIdle

\* No call of client_proxy_rcpt_parse_fields is looked at by itself, and
\* no lock timeout of a delivery.
NoCalls ==
    /\ parse_args = <<>>
    /\ parse_ret = NoObject
    /\ lock_timeout = NoObject

\* A mail: the raw mail of the transaction, or the mail saved by the
\* delivery to the recipient rcpt_to[owner].
Mail(kind, owner) == [kind |-> kind, owner |-> owner]
NoMail == Mail("NULL", 0)
raw_mail == Mail("raw", 0)

\* Characters that have no printable form.
NUL == "NUL"
CR == "CR"
LF == "LF"

\* enum lmtp_input_state.
LMTP_INPUT_STATE_GREET == 0
LMTP_INPUT_STATE_LHLO == 1
LMTP_INPUT_STATE_MAIL_FROM == 2
LMTP_INPUT_STATE_RCPT_TO == 3
LMTP_INPUT_STATE_DATA_CONTINUE == 4
LMTP_INPUT_STATE_DATA == 5

\* The server an outbound client talks to, before it has seen anything:
\* read counts the command lines it has answered, accepted lists the
\* addresses whose RCPT it accepted.
NoUpstream ==
    [greeted |-> FALSE, read |-> 0, mail |-> FALSE, accepted |-> <<>>,
     body |-> FALSE]

\* lmtp_client_init: the outbound client as it is created, no body given.
lmtp_client_init ==
    /\ protocol = "lmtp"
    /\ input_state = LMTP_INPUT_STATE_GREET
    /\ global_fail_string = NoObject
    /\ recipients = <<>>
    /\ rcpt_next_receive_idx = 0
    /\ rcpt_next_data_idx = 0
    /\ rcpt_next_send_idx = 0
    /\ lmtp_data_input = NoObject
    /\ fd = -1
    /\ lmtp_output = <<>>
    /\ lmtp_input = <<>>
    /\ lmtp_io = NULL
    /\ output_last = NUL
    /\ output_finished = FALSE
    /\ body_output = <<>>
    /\ callbacks = <<>>
    /\ send_called = FALSE
    /\ upstream = NoUpstream
    /\ panicked = FALSE

\* No outbound client is in use.
NoLmtpClient ==
    /\ lmtp_client_init
    /\ data_left = <<>>

\* The push-notification plugin has no driver and no transaction.
NoPushNotification ==
    /\ puser_drivers = <<>>
    /\ ptxns = <<>>
    /\ hook_calls = <<>>

\* No local fan-out has started.
NoFanout ==
    /\ fan_pc = "idle"
    /\ rcpt_idx = 0
    /\ src_mail = NoMail
    /\ first_saved_mail = NoMail
    /\ live_users = {}
    /\ freed_mails = {}
    /\ deliveries = <<>>

\* No body has been read.
NoBody ==
    /\ mail_data = <<>>
    /\ mail_data_output = NoObject
    /\ body_read = <<>>
    /\ add_ret = 0
    /\ data_input = NoObject

\* The port of the LMTP service, and a port configured otherwise.
LMTP_PORT == 24

\* enum lmtp_hdr_delivery_address, the parsed lmtp_hdr_delivery_address
\* setting.
LMTP_HDR_DELIVERY_ADDRESS_NONE == "none"
LMTP_HDR_DELIVERY_ADDRESS_FINAL == "final"
LMTP_HDR_DELIVERY_ADDRESS_ORIGINAL == "original"
HdrDeliveryAddresses ==
    {LMTP_HDR_DELIVERY_ADDRESS_NONE, LMTP_HDR_DELIVERY_ADDRESS_FINAL,
     LMTP_HDR_DELIVERY_ADDRESS_ORIGINAL}
LocalPorts == {LMTP_PORT, 2424}

Init ==
    /\ trusted \in BOOLEAN
    /\ set_lmtp_proxy \in BOOLEAN
    /\ set_limit \in {0, MaxLimit}
    /\ local_port = LMTP_PORT
    /\ lmtp_hdr_delivery_address = LMTP_HDR_DELIVERY_ADDRESS_FINAL
    /\ mail_max_lock_timeout = 0
    /\ SessionCreated
    /\ NoCalls
    /\ added_headers = NoObject
    /\ NoBody
    /\ NoFanout
    /\ NoPushNotification
    /\ NoLmtpClient

\* The peer writes one more command line to the connection.
PeerSend ==
    /\ ~destroyed
    /\ nsent < MaxCmds
    /\ Len(wire) + Len(input) < MaxPending
    /\ \E c \in PeerCmds : wire' = Append(wire, c)
    /\ nsent' = nsent + 1
    /\ UNCHANGED <<settings, lmtp_client, push_notification, fanout, calls, spool, session, mailst, lhlo, rcpt_to, proxy,
                   anvil_query, io, handling, proxy_running, destroyed,
                   input, output, ext>>

\* client_input: the socket is readable, the lines are read into the stream
\* buffer and client_input_handle starts.
ClientInput ==
    /\ ~destroyed
    /\ io = "client_input"
    /\ ~handling
    /\ wire # <<>>
    /\ input' = input \o wire
    /\ wire' = <<>>
    /\ handling' = TRUE
    /\ UNCHANGED <<settings, lmtp_client, push_notification, fanout, calls, spool, session, mailst, lhlo, rcpt_to, proxy,
                   anvil_query, io, proxy_running, destroyed, nsent,
                   output, ext>>

(***************************************************************************)
(* cmd_lhlo, cmd_mail, cmd_rset, cmd_noop, cmd_quit, cmd_xclient.          *)
(***************************************************************************)
cmd_lhlo ==
    /\ Ready("LHLO")
    /\ LET c == Head(input) IN
       IF c.arg = ""
       THEN /\ client_send_lines(<<Reply(HeadNo, "501 Missing hostname", 0)>>)
            /\ UNCHANGED <<mailst, rcpt_to, proxy, lhlo>>
       ELSE /\ client_state_reset
            /\ client_send_lines(<<Reply(HeadNo, "250 PIPELINING", 0)>>)
            /\ lhlo' = c.arg
    /\ line_done(0)
    /\ UNCHANGED <<settings, lmtp_client, push_notification, fanout, calls, spool, session, anvil_query, io, proxy_running,
                   destroyed, wire, nsent, ext>>

\* The loop of cmd_mail over the parameters after the address.
RECURSIVE mail_params_loop(_, _, _)
mail_params_loop(argv, i, st) ==
    IF st.failed \/ i > Len(argv)
    THEN st
    ELSE mail_params_loop(argv, i + 1,
            CASE argv[i] = "BODY=7BIT" -> [st EXCEPT !.b7 = TRUE]
              [] argv[i] = "BODY=8BITMIME" -> [st EXCEPT !.b8 = TRUE]
              [] OTHER -> [st EXCEPT !.failed = TRUE])

\* Mutant of mail_already_given: the sequence check is left out.
mail_already_given_unchecked == FALSE

\* cmd_mail's sequence check: a sender is already stored.
mail_already_given == mail_from # NULL

cmd_mail ==
    /\ Ready("MAIL")
    /\ LET c == Head(input)
           st == mail_params_loop(c.arg.params, 1,
                     [b7 |-> mail_body_7bit, b8 |-> mail_body_8bitmime,
                      failed |-> FALSE])
       IN
       IF mail_already_given
       THEN /\ client_send_lines(
                   <<Reply(HeadNo, "503 5.5.1 MAIL already given", 0)>>)
            /\ UNCHANGED <<mailst, rcpt_to>>
       ELSE IF ~c.arg.ok
       THEN /\ client_send_lines(
                   <<Reply(HeadNo, "501 5.5.4 Invalid parameters", 0)>>)
            /\ UNCHANGED <<mailst, rcpt_to>>
       ELSE /\ mail_body_7bit' = st.b7
            /\ mail_body_8bitmime' = st.b8
            /\ UNCHANGED added_headers
            /\ IF st.failed
               THEN /\ client_send_lines(
                           <<Reply(HeadNo, "501 5.5.4 Unsupported options", 0)>>)
                    /\ UNCHANGED <<mail_from, rcpt_to>>
               ELSE /\ mail_from' = c.arg.addr
                    /\ rcpt_to' = <<>>
                    /\ client_send_lines(<<Reply(HeadNo, "250 2.1.0 OK", 0)>>)
    /\ line_done(0)
    /\ UNCHANGED <<settings, lmtp_client, push_notification, fanout, calls, spool, session, lhlo, proxy, anvil_query, io,
                   proxy_running, destroyed, wire, nsent, ext>>

\* Mutant of cmd_rset: the reply is sent but the state is not reset.
cmd_rset_keeps_state ==
    /\ Ready("RSET")
    /\ client_send_lines(<<Reply(HeadNo, "250 2.0.0 OK", 0)>>)
    /\ line_done(0)
    /\ UNCHANGED <<settings, lmtp_client, push_notification, fanout, calls, spool, session, mailst, lhlo, rcpt_to, proxy,
                   anvil_query, io, proxy_running, destroyed, wire, nsent,
                   ext>>

cmd_rset ==
    /\ Ready("RSET")
    /\ client_state_reset
    /\ client_send_lines(<<Reply(HeadNo, "250 2.0.0 OK", 0)>>)
    /\ line_done(0)
    /\ UNCHANGED <<settings, lmtp_client, push_notification, fanout, calls, spool, session, lhlo, anvil_query, io, proxy_running,
                   destroyed, wire, nsent, ext>>

cmd_noop ==
    /\ Ready("NOOP")
    /\ client_send_lines(<<Reply(HeadNo, "250 2.0.0 OK", 0)>>)
    /\ line_done(0)
    /\ UNCHANGED <<settings, lmtp_client, push_notification, fanout, calls, spool, session, mailst, lhlo, rcpt_to, proxy,
                   anvil_query, io, proxy_running, destroyed, wire, nsent,
                   ext>>

cmd_quit ==
    /\ Ready("QUIT")
    /\ client_send_lines(<<Reply(HeadNo, "221 2.0.0 OK", 0)>>)
    /\ destroyed' = TRUE
    /\ io' = NULL
    /\ line_done(-1)
    /\ UNCHANGED <<settings, lmtp_client, push_notification, fanout, calls, spool, session, mailst, lhlo, rcpt_to, proxy,
                   anvil_query, proxy_running, wire, nsent, ext>>

\* UINT_MAX, the "no TTL given" mark of cmd_xclient: all bits set, written
\* here as the signed value of that bit pattern.
UINT_MAX == -1

\* The loop of cmd_xclient over its parameters, on the handler's locals.
RECURSIVE xclient_loop(_, _, _)
xclient_loop(tmp, i, st) ==
    IF i > Len(tmp)
    THEN st
    ELSE xclient_loop(tmp, i + 1,
            CASE tmp[i].key = "ADDR" ->
                    IF net_addr2ip_ok(tmp[i].value)
                    THEN [st EXCEPT !.remote_ip = tmp[i].value]
                    ELSE [st EXCEPT !.args_ok = FALSE]
              [] tmp[i].key = "PORT" ->
                    IF net_str2port_ok(tmp[i].value)
                    THEN [st EXCEPT !.remote_port = net_str2port(tmp[i].value)]
                    ELSE [st EXCEPT !.args_ok = FALSE]
              [] tmp[i].key = "TTL" ->
                    IF str_to_uint_ok(tmp[i].value)
                    THEN [st EXCEPT !.ttl = str_to_uint(tmp[i].value)]
                    ELSE [st EXCEPT !.args_ok = FALSE]
              [] tmp[i].key = "TIMEOUT" ->
                    IF str_to_uint_ok(tmp[i].value)
                    THEN [st EXCEPT !.timeout_secs = str_to_uint(tmp[i].value)]
                    ELSE [st EXCEPT !.args_ok = FALSE]
              [] OTHER -> st)

\* Mutant of cmd_xclient: the valid parameters are stored although the
\* command is rejected.
cmd_xclient_sets_while_parsing ==
    /\ Ready("XCLIENT")
    /\ LET c == Head(input)
           st == xclient_loop(c.arg, 1,
                     [remote_ip |-> NULL, remote_port |-> 0, ttl |-> UINT_MAX,
                      timeout_secs |-> 0, args_ok |-> TRUE])
       IN
       IF ~trusted
       THEN /\ client_send_lines(
                   <<Reply(HeadNo, "550 You are not from trusted IP", 0)>>)
            /\ UNCHANGED <<session, mailst, rcpt_to, proxy>>
       ELSE IF ~st.args_ok
       THEN /\ client_send_lines(
                   <<Reply(HeadNo, "501 Invalid parameters", 0)>>)
            /\ remote_ip' = IF st.remote_ip # NULL THEN st.remote_ip
                            ELSE remote_ip
            /\ remote_port' = IF st.remote_port # 0 THEN st.remote_port
                              ELSE remote_port
            /\ proxy_ttl' = IF st.ttl # UINT_MAX THEN st.ttl ELSE proxy_ttl
            /\ proxy_timeout_secs' = st.timeout_secs
            /\ UNCHANGED <<mailst, rcpt_to, proxy>>
       ELSE /\ client_state_reset
            /\ remote_ip' = IF st.remote_ip # NULL THEN st.remote_ip
                            ELSE remote_ip
            /\ remote_port' = IF st.remote_port # 0 THEN st.remote_port
                              ELSE remote_port
            /\ proxy_ttl' = IF st.ttl # UINT_MAX THEN st.ttl ELSE proxy_ttl
            /\ proxy_timeout_secs' = st.timeout_secs
            /\ client_send_lines(<<Reply(HeadNo, "220 greeting", 0)>>)
    /\ line_done(0)
    /\ UNCHANGED <<settings, lmtp_client, push_notification, fanout, calls, spool, lhlo, anvil_query, io, proxy_running,
                   destroyed, wire, nsent, ext>>

cmd_xclient ==
    /\ Ready("XCLIENT")
    /\ LET c == Head(input)
           st == xclient_loop(c.arg, 1,
                     [remote_ip |-> NULL, remote_port |-> 0, ttl |-> UINT_MAX,
                      timeout_secs |-> 0, args_ok |-> TRUE])
       IN
       IF ~trusted
       THEN /\ client_send_lines(
                   <<Reply(HeadNo, "550 You are not from trusted IP", 0)>>)
            /\ UNCHANGED <<session, mailst, rcpt_to, proxy>>
       ELSE IF ~st.args_ok
       THEN /\ client_send_lines(
                   <<Reply(HeadNo, "501 Invalid parameters", 0)>>)
            /\ UNCHANGED <<session, mailst, rcpt_to, proxy>>
       ELSE /\ client_state_reset
            /\ remote_ip' = IF st.remote_ip # NULL THEN st.remote_ip
                            ELSE remote_ip
            /\ remote_port' = IF st.remote_port # 0 THEN st.remote_port
                              ELSE remote_port
            /\ proxy_ttl' = IF st.ttl # UINT_MAX THEN st.ttl ELSE proxy_ttl
            /\ proxy_timeout_secs' = st.timeout_secs
            /\ client_send_lines(<<Reply(HeadNo, "220 greeting", 0)>>)
    /\ line_done(0)
    /\ UNCHANGED <<settings, lmtp_client, push_notification, fanout, calls, spool, lhlo, anvil_query, io, proxy_running,
                   destroyed, wire, nsent, ext>>

(***************************************************************************)
(* The recipient resolver: client_proxy_rcpt, cmd_rcpt, cmd_rcpt_finish    *)
(* and rcpt_anvil_lookup_callback.                                         *)
(***************************************************************************)
\* What auth_master_pass_lookup can answer: an error, not found, or found
\* with the fields of the user.
PassdbFields ==
    { <<Field("proxy", "")>>,
      <<Field("proxy", ""), Field("host", "10.0.0.2")>>,
      <<Field("proxy", ""), Field("host", "10.0.0.1")>>,
      <<Field("proxy", ""), Field("host", "10.0.0.1"), Field("user", "u2")>> }
PassdbResults ==
    {[ret |-> -1, fields |-> <<>>], [ret |-> 0, fields |-> <<>>]}
    \cup {[ret |-> 1, fields |-> f] : f \in PassdbFields}

\* What mail_storage_service_lookup can return.
UserdbResults == {-1, 0, 1}

\* What the quota check of lmtp_rcpt_to_is_over_quota can find: nothing
\* (also when lmtp_rcpt_check_quota is off), a failure, or the user over
\* quota with quota_full_tempfail on or off.
QuotaResults == {"ok", "error", "noquota_tempfail", "noquota"}

\* What the broker answers to a LOOKUP: nothing (NULL), text that is no
\* number, or a count.
AnvilReplies ==
    {[reply |-> NULL, count |-> 0], [reply |-> "invalid", count |-> 0]}
    \cup {[reply |-> "number", count |-> k] : k \in 0 .. MaxLimit}

ERRSTR_TEMP_REMOTE_FAILURE == "451 4.4.0 Remote server not answering"
ERRSTR_TEMP_MAILBOX_FAIL == "451 4.3.0 Temporary internal error"
ERRSTR_TEMP_USERDB_FAIL == "451 4.3.0 Temporary user lookup failure"
ERRSTR_MIXED == "451 4.3.0 Can't handle mixed proxy/non-proxy destinations"
ERRSTR_LOOP_SELF == "554 5.4.6 Proxying loops to itself"
ERRSTR_LOOP_TTL == "554 5.4.6 Proxying appears to be looping (TTL=0)"
ERRSTR_TOO_MANY == "451 4.3.0 Too many concurrent deliveries for user"

\* lmtp_proxy_init and lmtp_proxy_mail_from: the outbound proxy object.
lmtp_proxy_init ==
    [ttl |-> proxy_ttl - 1,
     mail_from |-> <<mail_from,
                     IF mail_body_8bitmime THEN " BODY=8BITMIME"
                     ELSE IF mail_body_7bit THEN " BODY=7BIT" ELSE "">>,
     rcpts |-> <<>>]

\* lmtp_proxy_add_rcpt, successful: the recipient joins the proxy.
lmtp_proxy_add_rcpt(p, n, address, set) ==
    [p EXCEPT ![1].rcpts = Append(@, [address |-> address, set |-> set,
                                      cmd |-> n])]

\* Mutant of proxy_ttl_exhausted: the check is off by one.
proxy_ttl_exhausted_at_zero == proxy_ttl <= 0

\* client_proxy_rcpt's TTL check.
proxy_ttl_exhausted == proxy_ttl <= 1

\* Mutant of proxy_rcpt_is_mixed: the class check is left out.
proxy_rcpt_is_mixed_unchecked == FALSE

\* client_proxy_rcpt's class check: a local recipient was accepted before.
proxy_rcpt_is_mixed == Len(rcpt_to) # 0

\* client_proxy_rcpt's loop check, skipped when the user name was rewritten.
proxy_loops_to_itself(changed, set) ==
    ~changed /\ client_proxy_is_ourself(set)

\* client_proxy_rcpt on line n: consumed is its return value, replies the
\* lines it sends, proxy the proxy object it leaves.  pass is the answer of
\* the passdb lookup, add_ok whether lmtp_proxy_add_rcpt succeeds.
client_proxy_rcpt(n, address, username, pass, add_ok) ==
    LET pf == client_proxy_rcpt_parse_fields(pass.fields, username)
        changed == pf.address # username
        address2 == IF changed THEN pf.address ELSE address
        proxy2 == IF proxy = NoObject THEN Object(lmtp_proxy_init) ELSE proxy
        Consumed(code, p) ==
            [consumed |-> TRUE, replies |-> <<Reply(n, code, n)>>, proxy |-> p]
    IN
    IF pass.ret < 0 THEN Consumed(ERRSTR_TEMP_USERDB_FAIL, proxy)
    ELSE IF pass.ret = 0 \/ ~pf.ok
    THEN [consumed |-> FALSE, replies |-> <<>>, proxy |-> proxy]
    ELSE IF proxy_loops_to_itself(changed, pf.set)
    THEN Consumed(ERRSTR_LOOP_SELF, proxy)
    ELSE IF proxy_ttl_exhausted THEN Consumed(ERRSTR_LOOP_TTL, proxy)
    ELSE IF proxy_rcpt_is_mixed THEN Consumed(ERRSTR_MIXED, proxy)
    ELSE IF ~add_ok THEN Consumed(ERRSTR_TEMP_REMOTE_FAILURE, proxy2)
    ELSE Consumed("250 2.1.5 OK",
                  lmtp_proxy_add_rcpt(proxy2, n, address2, pf.set))

\* cmd_rcpt_finish: the quota check, then the recipient is appended.
cmd_rcpt_finish(rcpt, quota) ==
    CASE quota = "error" ->
            [accepted |-> FALSE, rcpt_to |-> rcpt_to,
             replies |-> <<Reply(rcpt.cmd, ERRSTR_TEMP_MAILBOX_FAIL, rcpt.cmd)>>]
      [] quota = "noquota_tempfail" ->
            [accepted |-> FALSE, rcpt_to |-> rcpt_to,
             replies |-> <<Reply(rcpt.cmd, "452 4.2.2 Quota exceeded", rcpt.cmd)>>]
      [] quota = "noquota" ->
            [accepted |-> FALSE, rcpt_to |-> rcpt_to,
             replies |-> <<Reply(rcpt.cmd, "552 5.2.2 Quota exceeded", rcpt.cmd)>>]
      [] OTHER ->
            [accepted |-> TRUE, rcpt_to |-> Append(rcpt_to, rcpt),
             replies |-> <<Reply(rcpt.cmd, "250 2.1.5 OK", rcpt.cmd)>>]

\* cmd_rcpt's sequence check: no sender is stored.
mail_needed_first == mail_from = NULL

\* Mutant of local_rcpt_is_mixed: the class check is left out.
local_rcpt_is_mixed_unchecked == FALSE

\* cmd_rcpt's class check: a proxied recipient came before.
local_rcpt_is_mixed == proxy # NoObject

\* Mutant of cmd_rcpt_suspend: the handler returns 0 and leaves the input
\* callback installed.
cmd_rcpt_suspend_not ==
    /\ UNCHANGED io
    /\ line_done(0)

\* The end of cmd_rcpt when the broker query is sent: the input callback is
\* removed and -1 returned, which stops the handling of further lines while
\* the query is pending.
cmd_rcpt_suspend ==
    /\ io' = NULL
    /\ line_done(-1)

\* An entry of ext: a directory lookup (passdb, userdb) with its answer, or
\* a message to or from the broker (LOOKUP, REPLY, CONNECT), made for the
\* RCPT line n.
Ext(op, n, res) == [op |-> op, cmd |-> n, res |-> res]

\* The recipient cmd_rcpt allocates for line n.
mail_recipient(n, address, username) ==
    [cmd |-> n, address |-> address, username |-> username,
     anvil_connect_sent |-> FALSE]

\* cmd_rcpt's parameters after the address: only ORCPT= is supported.
rcpt_params_ok(params) ==
    \A i \in 1 .. Len(params) : params[i].key = "ORCPT"

cmd_rcpt ==
    /\ Ready("RCPT")
    /\ LET c == Head(input)
           n == HeadNo
           address == c.arg.addr
           username == c.arg.addr
       IN
       IF mail_needed_first
       THEN /\ client_send_lines(
                   <<Reply(n, "503 5.5.1 MAIL needed first", 0)>>)
            /\ line_done(0)
            /\ UNCHANGED <<rcpt_to, proxy, anvil_query, io, ext>>
       ELSE IF ~c.arg.ok
       THEN /\ client_send_lines(
                   <<Reply(n, "501 5.5.4 Invalid parameters", 0)>>)
            /\ line_done(0)
            /\ UNCHANGED <<rcpt_to, proxy, anvil_query, io, ext>>
       ELSE IF ~rcpt_params_ok(c.arg.params)
       THEN /\ client_send_lines(
                   <<Reply(n, "501 5.5.4 Unsupported options", 0)>>)
            /\ line_done(0)
            /\ UNCHANGED <<rcpt_to, proxy, anvil_query, io, ext>>
       ELSE
       \E pass \in PassdbResults, add_ok \in BOOLEAN,
          ret \in UserdbResults, quota \in QuotaResults :
          LET pr == IF set_lmtp_proxy
                    THEN client_proxy_rcpt(n, address, username, pass, add_ok)
                    ELSE [consumed |-> FALSE, replies |-> <<>>,
                          proxy |-> proxy]
              passlog == IF set_lmtp_proxy
                         THEN <<Ext("passdb", n, pass)>> ELSE <<>>
              userlog == <<Ext("userdb", n, [ret |-> ret])>>
              rcpt == mail_recipient(n, address, username)
              fin == cmd_rcpt_finish(rcpt, quota)
          IN
          IF pr.consumed
          THEN /\ client_send_lines(pr.replies)
               /\ proxy' = pr.proxy
               /\ ext' = ext \o passlog
               /\ line_done(0)
               /\ UNCHANGED <<rcpt_to, anvil_query, io>>
          ELSE IF ret < 0
          THEN /\ client_send_lines(
                      <<Reply(n, ERRSTR_TEMP_MAILBOX_FAIL, n)>>)
               /\ ext' = ext \o passlog \o userlog
               /\ line_done(0)
               /\ UNCHANGED <<rcpt_to, proxy, anvil_query, io>>
          ELSE IF ret = 0
          THEN /\ client_send_lines(
                      <<Reply(n, "550 5.1.1 User doesn't exist", n)>>)
               /\ ext' = ext \o passlog \o userlog
               /\ line_done(0)
               /\ UNCHANGED <<rcpt_to, proxy, anvil_query, io>>
          ELSE IF local_rcpt_is_mixed
          THEN /\ client_send_lines(<<Reply(n, ERRSTR_MIXED, n)>>)
               /\ ext' = ext \o passlog \o userlog
               /\ line_done(0)
               /\ UNCHANGED <<rcpt_to, proxy, anvil_query, io>>
          ELSE IF set_limit = 0
          THEN /\ client_send_lines(fin.replies)
               /\ rcpt_to' = fin.rcpt_to
               /\ ext' = ext \o passlog \o userlog
               /\ line_done(0)
               /\ UNCHANGED <<proxy, anvil_query, io>>
          ELSE /\ anvil_query' = Object(rcpt)
               /\ ext' = ext \o passlog \o userlog
                             \o <<Ext("LOOKUP", n, [user |-> username])>>
               /\ cmd_rcpt_suspend
               /\ UNCHANGED <<rcpt_to, proxy, output>>
    /\ UNCHANGED <<settings, lmtp_client, push_notification, fanout, calls, spool, session, mailst, lhlo, proxy_running,
                   destroyed, wire, nsent>>

\* rcpt_anvil_lookup_callback's count: the reply parsed by str_to_uint, 0
\* when there is no reply or it is no number.
anvil_parallel_count(reply) ==
    IF reply.reply = "number" THEN reply.count ELSE 0

\* rcpt_anvil_lookup_callback's limit check.
anvil_over_limit(parallel_count) == parallel_count >= set_limit

\* Mutant of anvil_callback_resume: the input callback is installed again
\* but the lines already buffered are not handled.
anvil_callback_resume_io_only ==
    /\ client_io_reset
    /\ UNCHANGED handling

\* What rcpt_anvil_lookup_callback does about command input when it is done.
anvil_callback_resume ==
    /\ client_io_reset
    /\ client_input_handle

rcpt_anvil_lookup_callback ==
    /\ ~destroyed
    /\ anvil_query # NoObject
    /\ \E reply \in AnvilReplies, quota \in QuotaResults :
          LET rcpt == anvil_query[1]
              fin == cmd_rcpt_finish(rcpt, quota)
              replylog == <<Ext("REPLY", rcpt.cmd, reply)>>
          IN
          IF anvil_over_limit(anvil_parallel_count(reply))
          THEN /\ client_send_lines(
                      <<Reply(rcpt.cmd, ERRSTR_TOO_MANY, rcpt.cmd)>>)
               /\ ext' = ext \o replylog
               /\ UNCHANGED rcpt_to
          ELSE IF fin.accepted
          THEN /\ client_send_lines(fin.replies)
               /\ rcpt_to' = [fin.rcpt_to EXCEPT
                                 ![Len(fin.rcpt_to)].anvil_connect_sent = TRUE]
               /\ ext' = ext \o replylog
                             \o <<Ext("CONNECT", rcpt.cmd,
                                      [user |-> rcpt.username])>>
          ELSE /\ client_send_lines(fin.replies)
               /\ rcpt_to' = fin.rcpt_to
               /\ ext' = ext \o replylog
    /\ anvil_query' = NoObject
    /\ anvil_callback_resume
    /\ UNCHANGED <<settings, lmtp_client, push_notification, fanout, calls, spool, session, mailst, lhlo, proxy, proxy_running,
                   destroyed, wire, input, nsent>>

(***************************************************************************)
(* The body spool: client_input_add, client_input_add_file and             *)
(* client_get_input.  The body is read from client->dot_input in pieces; a *)
(* piece is [no, size], its place in the body and its number of bytes, and *)
(* a run of bytes is the sequence of the pieces it is made of.             *)
(***************************************************************************)
CLIENT_MAIL_DATA_MAX_INMEMORY_SIZE == 65536

MaxChunks == 3
ChunkSizes == {1, 65535, 65537}

\* How the file operations of client_input_add_file can end.
FileResults == {"ok", "mkstemp_failed", "unlink_failed", "write_failed"}

\* buffer->used.
RECURSIVE used(_)
used(buf) == IF buf = <<>> THEN 0 ELSE Head(buf).size + used(Tail(buf))

\* Mutant of client_input_add_file: the new file is not seeded with the
\* buffer.
client_input_add_file_unseeded(data, res) ==
    IF mail_data_output # NoObject
    THEN IF res = "write_failed"
         THEN [ret |-> -1, mail_data |-> mail_data,
               mail_data_output |-> mail_data_output]
         ELSE [ret |-> 0, mail_data |-> mail_data,
               mail_data_output |-> Object(Append(mail_data_output[1], data))]
    ELSE IF res \in {"mkstemp_failed", "unlink_failed"}
    THEN [ret |-> -1, mail_data |-> mail_data, mail_data_output |-> NoObject]
    ELSE [ret |-> IF res = "write_failed" THEN -1 ELSE 0,
          mail_data |-> mail_data,
          mail_data_output |-> Object(<<data>>)]

\* client_input_add_file: its return value and the spool it leaves.  After
\* a failed write the file holds what was sent to it before.
client_input_add_file(data, res) ==
    IF mail_data_output # NoObject
    THEN IF res = "write_failed"
         THEN [ret |-> -1, mail_data |-> mail_data,
               mail_data_output |-> mail_data_output]
         ELSE [ret |-> 0, mail_data |-> mail_data,
               mail_data_output |-> Object(Append(mail_data_output[1], data))]
    ELSE IF res \in {"mkstemp_failed", "unlink_failed"}
    THEN [ret |-> -1, mail_data |-> mail_data, mail_data_output |-> NoObject]
    ELSE [ret |-> IF res = "write_failed" THEN -1 ELSE 0,
          mail_data |-> mail_data,
          mail_data_output |-> Object(Append(mail_data, data))]

\* Mutant of client_input_add: the size of the new data is not counted.
client_input_add_ignores_size(data, res) ==
    IF used(mail_data) <= CLIENT_MAIL_DATA_MAX_INMEMORY_SIZE
       /\ mail_data_output = NoObject
    THEN [ret |-> 0, mail_data |-> Append(mail_data, data),
          mail_data_output |-> mail_data_output]
    ELSE client_input_add_file(data, res)

client_input_add(data, res) ==
    IF used(mail_data) + data.size <= CLIENT_MAIL_DATA_MAX_INMEMORY_SIZE
       /\ mail_data_output = NoObject
    THEN [ret |-> 0, mail_data |-> Append(mail_data, data),
          mail_data_output |-> mail_data_output]
    ELSE client_input_add_file(data, res)

\* client_get_input: added_headers, then the file if there is one and the
\* buffer otherwise.
client_get_input ==
    added_headers
        \o (IF mail_data_output # NoObject
            THEN mail_data_output[1]
            ELSE mail_data)

(***************************************************************************)
(* cmd_data and the DATA phase: client_input_data_handle,                  *)
(* client_input_data_write, the local fan-out and the proxy finish.        *)
(***************************************************************************)
\* cmd_data's check that the envelope has a destination.
data_no_valid_rcpts == Len(rcpt_to) = 0 /\ proxy = NoObject

\* Mutant of client_get_added_headers: Return-Path is set when proxying
\* too.
client_get_added_headers_always_return_path ==
    LET rcpt_hdr ==
            IF Len(rcpt_to) = 1
            THEN CASE lmtp_hdr_delivery_address
                          = LMTP_HDR_DELIVERY_ADDRESS_NONE -> NULL
                   [] lmtp_hdr_delivery_address
                          = LMTP_HDR_DELIVERY_ADDRESS_FINAL ->
                          rcpt_to[1].address
                   [] OTHER -> rcpt_to[1].address
            ELSE NULL
    IN  [return_path |-> mail_from,
         delivered_to |-> IF Len(rcpt_to) > 0 THEN rcpt_hdr ELSE NULL,
         received_from |-> lhlo,
         received_for |-> rcpt_hdr]

\* client_get_added_headers: the header block, as the values of its lines
\* (NULL for a line or clause that is left out).  The recipients of this
\* model have no ORCPT parameter, so that orcpt_get_valid_rfc822 fails and
\* LMTP_HDR_DELIVERY_ADDRESS_ORIGINAL gives the address.
client_get_added_headers ==
    LET rcpt_hdr ==
            IF Len(rcpt_to) = 1
            THEN CASE lmtp_hdr_delivery_address
                          = LMTP_HDR_DELIVERY_ADDRESS_NONE -> NULL
                   [] lmtp_hdr_delivery_address
                          = LMTP_HDR_DELIVERY_ADDRESS_FINAL ->
                          rcpt_to[1].address
                   [] OTHER -> rcpt_to[1].address
            ELSE NULL
    IN  [return_path |-> IF Len(rcpt_to) > 0 THEN mail_from ELSE NULL,
         delivered_to |-> IF Len(rcpt_to) > 0 THEN rcpt_hdr ELSE NULL,
         received_from |-> lhlo,
         received_for |-> rcpt_hdr]

\* Mutant of cmd_data: the header block is left as it was.
cmd_data_without_headers ==
    /\ Ready("DATA")
    /\ IF mail_from = NULL
       THEN /\ client_send_lines(
                   <<Reply(HeadNo, "503 5.5.1 MAIL needed first", 0)>>)
            /\ line_done(0)
            /\ UNCHANGED io
       ELSE IF data_no_valid_rcpts
       THEN /\ client_send_lines(
                   <<Reply(HeadNo, "554 5.5.1 No valid recipients", 0)>>)
            /\ line_done(0)
            /\ UNCHANGED io
       ELSE /\ client_send_lines(<<Reply(HeadNo, "354 OK", 0)>>)
            /\ io' = "client_input_data"
            /\ line_done(-1)
    /\ UNCHANGED <<settings, lmtp_client, push_notification, fanout, calls, spool, session, mailst, lhlo, rcpt_to,
                   proxy, anvil_query, proxy_running, destroyed, wire, nsent,
                   ext>>

cmd_data ==
    /\ Ready("DATA")
    /\ IF mail_from = NULL
       THEN /\ client_send_lines(
                   <<Reply(HeadNo, "503 5.5.1 MAIL needed first", 0)>>)
            /\ line_done(0)
            /\ UNCHANGED <<io, added_headers>>
       ELSE IF data_no_valid_rcpts
       THEN /\ client_send_lines(
                   <<Reply(HeadNo, "554 5.5.1 No valid recipients", 0)>>)
            /\ line_done(0)
            /\ UNCHANGED <<io, added_headers>>
       ELSE /\ added_headers' = Object(client_get_added_headers)
            /\ client_send_lines(<<Reply(HeadNo, "354 OK", 0)>>)
            /\ io' = "client_input_data"
            /\ line_done(-1)
    /\ UNCHANGED <<settings, lmtp_client, push_notification, fanout, calls, spool, session, mail_from,
                   mail_body_7bit, mail_body_8bitmime, lhlo, rcpt_to, proxy,
                   anvil_query, proxy_running, destroyed, wire, nsent, ext>>

\* How a delivery by client_deliver can end: the user cannot be initialised
\* or its settings expanded, the mail is saved, mail_deliver reports a
\* temporary failure, the storage is over quota (quota_full_tempfail on or
\* off) or fails otherwise, or the failure has no storage.
DeliverResults ==
    {"init_failed", "saved", "tempfail", "noquota_tempfail", "noquota",
     "storage_error", "unknown"}

\* client_deliver for one recipient: its return value and its reply line.
client_deliver(rcpt, res) ==
    [ret |-> IF res = "saved" THEN 0 ELSE -1,
     reply |-> Reply(LastNo,
                     CASE res = "init_failed" -> ERRSTR_TEMP_MAILBOX_FAIL
                       [] res = "saved" -> "250 2.0.0 Saved"
                       [] res = "tempfail" -> "451 4.2.0 tempfail"
                       [] res = "noquota_tempfail" -> "452 4.2.2 Quota exceeded"
                       [] res = "noquota" -> "552 5.2.2 Quota exceeded"
                       [] res = "storage_error" -> "451 4.2.0 storage error"
                       [] OTHER -> ERRSTR_TEMP_MAILBOX_FAIL,
                     rcpt.cmd)]

\* Mutant of client_deliver_next: it gives up at the first failed delivery.
client_deliver_next_gives_up(idx, results, sent) ==
    IF idx > Len(rcpt_to)
    THEN [more |-> FALSE, idx |-> idx, sent |-> sent]
    ELSE LET d == client_deliver(rcpt_to[idx], results[idx]) IN
         [more |-> d.ret = 0, idx |-> idx + 1, sent |-> Append(sent, d.reply)]

\* client_deliver_next from rcpt_idx = idx (counted from 1 here): delivers
\* until one delivery succeeds or the recipients are exhausted.
RECURSIVE client_deliver_next(_, _, _)
client_deliver_next(idx, results, sent) ==
    IF idx > Len(rcpt_to)
    THEN [more |-> FALSE, idx |-> idx, sent |-> sent]
    ELSE LET d == client_deliver(rcpt_to[idx], results[idx]) IN
         IF d.ret = 0
         THEN [more |-> TRUE, idx |-> idx + 1, sent |-> Append(sent, d.reply)]
         ELSE client_deliver_next(idx + 1, results, Append(sent, d.reply))

\* The loop of client_input_data_write_local around client_deliver_next.
RECURSIVE deliver_loop(_, _, _)
deliver_loop(idx, results, sent) ==
    LET r == client_deliver_next(idx, results, sent) IN
    IF r.more THEN deliver_loop(r.idx, results, r.sent) ELSE r.sent

\* client_rcpt_fail_all: one failure line per recipient.
client_rcpt_fail_all ==
    [i \in 1 .. Len(rcpt_to) |->
        Reply(LastNo, ERRSTR_TEMP_MAILBOX_FAIL, rcpt_to[i].cmd)]

\* client_input_data_write_local: the reply lines of the local fan-out.
client_input_data_write_local(raw_ok, results) ==
    IF ~raw_ok THEN client_rcpt_fail_all ELSE deliver_loop(1, results, <<>>)

\* client_input_data_finish.
client_input_data_finish ==
    /\ client_io_reset
    /\ client_state_reset
    /\ client_input_handle

\* client_destroy.
client_destroy ==
    /\ destroyed' = TRUE
    /\ io' = NULL
    /\ handling' = FALSE

\* The deliveries of client_input_data_write_local, each with the message
\* it is given: none when the raw mail cannot be opened, and one for every
\* recipient otherwise.
local_deliveries(raw_ok, msg) ==
    IF ~raw_ok THEN <<>>
    ELSE [i \in 1 .. Len(rcpt_to) |->
             Ext("client_deliver", rcpt_to[i].cmd, msg)]

\* What the dot stream gives client_input_data_handle: the end-of-data
\* line, data that cannot be added to the spool, or the disconnection of the
\* peer.
DataEvents == {"eof", "spool_failed", "disconnected"}

\* Mutant of client_input_data_handle: the result of client_input_add is
\* not looked at.
client_input_data_handle_ignores_add(ev) ==
    CASE ev = "spool_failed" -> "write"
      [] ev = "disconnected" -> "destroy"
      [] OTHER -> "write"

\* client_input_data_handle: how it ends when the input is not just
\* exhausted.
client_input_data_handle(ev) ==
    CASE ev = "spool_failed" -> "destroy_451"
      [] ev = "disconnected" -> "destroy"
      [] OTHER -> "write"

\* client_input_data: the body arrives.
client_input_data ==
    /\ ~destroyed
    /\ io = "client_input_data"
    /\ \E ev \in DataEvents :
          /\ add_ret' = IF ev = "spool_failed" THEN -1 ELSE add_ret
          /\ CASE client_input_data_handle(ev) = "destroy_451" ->
                     /\ client_send_lines(
                            <<Reply(LastNo, "451 4.3.0 Temporary internal failure", 0)>>)
                     /\ client_destroy
                     /\ UNCHANGED <<mailst, rcpt_to, proxy, proxy_running, ext>>
               [] client_input_data_handle(ev) = "destroy" ->
                     /\ client_destroy
                     /\ UNCHANGED <<mailst, rcpt_to, proxy, proxy_running, output,
                                    ext>>
               [] OTHER ->
                     \E raw_ok \in BOOLEAN,
                        results \in [1 .. Len(rcpt_to) -> DeliverResults] :
                        /\ client_send_lines(
                               IF Len(rcpt_to) # 0
                               THEN client_input_data_write_local(raw_ok, results)
                               ELSE <<>>)
                        /\ IF proxy # NoObject
                           THEN /\ proxy_running' = TRUE
                                /\ io' = NULL
                                /\ ext' = ext
                                       \o local_deliveries(raw_ok, client_get_input)
                                       \o <<Ext("lmtp_proxy_start", LastNo,
                                                client_get_input)>>
                                /\ UNCHANGED <<mailst, rcpt_to, proxy, handling>>
                           ELSE /\ client_input_data_finish
                                /\ ext' = ext
                                       \o local_deliveries(raw_ok, client_get_input)
                                /\ UNCHANGED proxy_running
                        /\ UNCHANGED destroyed
    /\ UNCHANGED <<settings, lmtp_client, push_notification, fanout, calls, mail_data, mail_data_output, body_read,
                   data_input, session, lhlo, anvil_query, wire, input, nsent>>

\* What the outbound proxy reports for a recipient after DATA.
ProxyResults == {"250 2.0.0 Saved", ERRSTR_TEMP_REMOTE_FAILURE}

\* client_proxy_finish: the proxy has answered for every recipient.
client_proxy_finish ==
    /\ ~destroyed
    /\ proxy_running
    /\ \E results \in [1 .. Len(proxy[1].rcpts) -> ProxyResults] :
          client_send_lines(
              [i \in 1 .. Len(proxy[1].rcpts) |->
                  Reply(LastNo, results[i], proxy[1].rcpts[i].cmd)])
    /\ proxy_running' = FALSE
    /\ client_input_data_finish
    /\ UNCHANGED <<settings, lmtp_client, push_notification, fanout, calls, spool, session, lhlo, anvil_query, destroyed, wire,
                   input, nsent, ext>>

\* The loop of client_input_data_handle: one piece is read from dot_input
\* and added to the spool; it is skipped in dot_input if that went well.
data_handle_add ==
    /\ add_ret = 0
    /\ data_input = NoObject
    /\ Len(body_read) < MaxChunks
    /\ \E size \in ChunkSizes, res \in FileResults :
          LET data == [no |-> Len(body_read) + 1, size |-> size]
              r == client_input_add(data, res)
          IN  /\ add_ret' = r.ret
              /\ mail_data' = r.mail_data
              /\ mail_data_output' = r.mail_data_output
              /\ body_read' = IF r.ret < 0 THEN body_read
                                           ELSE Append(body_read, data)
    /\ UNCHANGED <<settings, lmtp_client, push_notification, fanout, calls, session, mailst, lhlo,
                   rcpt_to, proxy, anvil_query, io, handling, proxy_running,
                   destroyed, wire, input, nsent, output, ext, data_input>>

\* client_input_data_write at the end of the body: client_get_input.
data_write_get_input ==
    /\ add_ret = 0
    /\ data_input = NoObject
    /\ data_input' = Object(client_get_input)
    /\ UNCHANGED <<settings, lmtp_client, push_notification, fanout, calls, session, mailst, lhlo,
                   rcpt_to, proxy, anvil_query, io, handling, proxy_running,
                   destroyed, wire, input, nsent, output, ext, mail_data,
                   mail_data_output, body_read, add_ret>>

\* The header blocks the spool is checked with: the text client_get_input
\* puts in front of the body.
HeaderBlocks == {"Return-Path: <s1> Received: from h1", "Received: from h1"}

\* The state in which client_input_data_handle is first called: cmd_data
\* has set added_headers and created the empty buffer.
InitSpool ==
    /\ trusted = FALSE
    /\ set_lmtp_proxy = FALSE
    /\ set_limit = 0
    /\ local_port = LMTP_PORT
    /\ lmtp_hdr_delivery_address = LMTP_HDR_DELIVERY_ADDRESS_FINAL
    /\ mail_max_lock_timeout = 0
    /\ SessionCreated
    /\ NoCalls
    /\ added_headers \in {Object(h) : h \in HeaderBlocks}
    /\ NoBody
    /\ NoFanout
    /\ NoPushNotification
    /\ NoLmtpClient

NextSpool ==
    \/ data_handle_add
    \/ data_write_get_input

SpoolSpec == InitSpool /\ [][NextSpool]_vars

Next ==
    \/ PeerSend
    \/ ClientInput
    \/ cmd_lhlo
    \/ cmd_mail
    \/ cmd_rcpt
    \/ cmd_data
    \/ cmd_rset
    \/ cmd_noop
    \/ cmd_quit
    \/ cmd_xclient
    \/ rcpt_anvil_lookup_callback
    \/ client_input_data
    \/ client_proxy_finish

Spec == Init /\ [][Next]_vars

\* The handler of the head line of the stream buffer: client_input_handle
\* calls it without waiting for anything.
HandleLine ==
    \/ cmd_lhlo
    \/ cmd_mail
    \/ cmd_rcpt
    \/ cmd_data
    \/ cmd_rset
    \/ cmd_noop
    \/ cmd_quit
    \/ cmd_xclient

\* The broker client calls the callback of every query, with the reply or
\* with NULL when the query failed, and the input loop runs on.
\* The sessions of a server that has the concurrency limit and proxying on.
InitLimited ==
    /\ Init
    /\ set_limit = MaxLimit
    /\ set_lmtp_proxy
    /\ ~trusted

\* The sessions of a server with the connection limit and the proxy on,
\* under each value of lmtp_hdr_delivery_address.
InitHeaders ==
    /\ trusted = FALSE
    /\ set_lmtp_proxy = TRUE
    /\ set_limit = MaxLimit
    /\ local_port = LMTP_PORT
    /\ lmtp_hdr_delivery_address \in HdrDeliveryAddresses
    /\ mail_max_lock_timeout = 0
    /\ SessionCreated
    /\ NoCalls
    /\ added_headers = NoObject
    /\ NoBody
    /\ NoFanout
    /\ NoPushNotification
    /\ NoLmtpClient

HeaderSpec == InitHeaders /\ [][Next]_vars

(***************************************************************************)
(* The local fan-out, one delivery at a time: client_open_raw_mail, the    *)
(* loop of client_input_data_write_local around client_deliver_next and    *)
(* client_deliver, and the release of the first saved mail.                *)
(***************************************************************************)
MaxRcpts == 3

\* Mutant of save_dest_mail: a saved mail is asked for at every delivery.
save_dest_mail_always == Len(rcpt_to) > 1

\* dctx.save_dest_mail as client_deliver sets it.
save_dest_mail == Len(rcpt_to) > 1 /\ first_saved_mail = NoMail

\* The transaction when client_input_data_write calls
\* client_input_data_write_local: MAIL, one to MaxRcpts accepted local
\* recipients, DATA and the whole body have been read.
InitFanout ==
    /\ trusted = FALSE
    /\ set_lmtp_proxy = FALSE
    /\ set_limit = 0
    /\ local_port = LMTP_PORT
    /\ lmtp_hdr_delivery_address = LMTP_HDR_DELIVERY_ADDRESS_FINAL
    /\ mail_max_lock_timeout = 0
    /\ lhlo = NULL
    /\ proxy_ttl = LMTP_PROXY_DEFAULT_TTL
    /\ proxy_timeout_secs = 0
    /\ remote_ip = "10.0.0.9"
    /\ remote_port = 50000
    /\ mail_from = "s1"
    /\ mail_body_7bit = FALSE
    /\ mail_body_8bitmime = FALSE
    /\ \E n \in 1 .. MaxRcpts :
          /\ rcpt_to = [i \in 1 .. n |-> mail_recipient(i + 1, "u1", "u1")]
          /\ nsent = n + 2
          /\ output = <<Reply(1, "250 2.1.0 OK", 0)>>
                        \o [i \in 1 .. n |-> Reply(i + 1, "250 2.1.5 OK", i + 1)]
                        \o <<Reply(n + 2, "354 OK", 0)>>
    /\ NoLmtpClient
    /\ added_headers = Object(client_get_added_headers)
    /\ proxy = NoObject
    /\ anvil_query = NoObject
    /\ io = NULL
    /\ handling = FALSE
    /\ proxy_running = FALSE
    /\ destroyed = FALSE
    /\ wire = <<>>
    /\ input = <<>>
    /\ ext = <<>>
    /\ NoCalls
    /\ NoBody
    /\ NoFanout
    /\ NoPushNotification
    /\ NoLmtpClient

\* client_open_raw_mail at the start of client_input_data_write_local.
write_local_open ==
    /\ fan_pc = "idle"
    /\ \E raw_ok \in BOOLEAN :
          IF raw_ok
          THEN /\ src_mail' = raw_mail
               /\ fan_pc' = "deliver"
               /\ UNCHANGED output
          ELSE /\ client_send_lines(client_rcpt_fail_all)
               /\ fan_pc' = "done"
               /\ UNCHANGED src_mail
    /\ UNCHANGED <<settings, lmtp_client, push_notification, calls, spool, session, mailst, lhlo, rcpt_to,
                   proxy, anvil_query, io, handling, proxy_running, destroyed,
                   wire, input, nsent, ext, rcpt_idx, first_saved_mail,
                   live_users, freed_mails, deliveries>>

\* One call of client_deliver by client_deliver_next, for the recipient at
\* rcpt_idx, and what the two loops do with its result.  dest_mail tells
\* whether mail_deliver left a saved mail in dctx.dest_mail, which it does
\* only when it was asked to and the mail was saved.
write_local_deliver ==
    /\ fan_pc = "deliver"
    /\ rcpt_idx < Len(rcpt_to)
    /\ \E res \in DeliverResults, dest_mail \in BOOLEAN :
          LET i == rcpt_idx + 1
              d == client_deliver(rcpt_to[i], res)
              saved == IF dest_mail THEN Mail("saved", i) ELSE NoMail
              first == IF dest_mail THEN saved ELSE first_saved_mail
          IN
          /\ dest_mail => (res = "saved" /\ save_dest_mail)
          /\ deliveries' = Append(deliveries,
                                [rcpt |-> i, src_mail |-> src_mail,
                                 ret |-> d.ret, dest_mail |-> saved])
          /\ client_send_lines(<<d.reply>>)
          /\ IF dest_mail /\ first_saved_mail # NoMail
             THEN /\ fan_pc' = "panic"
                  /\ UNCHANGED <<rcpt_idx, src_mail, first_saved_mail,
                                 live_users>>
             ELSE /\ fan_pc' = "deliver"
                  /\ first_saved_mail' = first
                  /\ rcpt_idx' = rcpt_idx + 1
                  /\ IF d.ret = 0 /\ first # NoMail /\ first # src_mail
                     THEN /\ src_mail' = first
                          /\ live_users' = live_users \cup {i}
                     ELSE UNCHANGED <<src_mail, live_users>>
    /\ UNCHANGED <<settings, lmtp_client, push_notification, calls, spool, session, mailst, lhlo, rcpt_to,
                   proxy, anvil_query, io, handling, proxy_running, destroyed,
                   wire, input, nsent, ext, freed_mails>>

\* The end of client_input_data_write_local: the first saved mail, its
\* transaction, its mailbox and its user are released.
write_local_release ==
    /\ fan_pc = "deliver"
    /\ rcpt_idx >= Len(rcpt_to)
    /\ fan_pc' = "done"
    /\ IF first_saved_mail # NoMail
       THEN /\ freed_mails' = freed_mails \cup {first_saved_mail}
            /\ live_users' = live_users \ {first_saved_mail.owner}
       ELSE UNCHANGED <<freed_mails, live_users>>
    /\ UNCHANGED <<settings, lmtp_client, push_notification, calls, spool, session, mailst, lhlo, rcpt_to,
                   proxy, anvil_query, io, handling, proxy_running, destroyed,
                   wire, input, nsent, output, ext, rcpt_idx, src_mail,
                   first_saved_mail, deliveries>>

NextFanout ==
    \/ write_local_open
    \/ write_local_deliver
    \/ write_local_release

FanoutSpec == InitFanout /\ [][NextFanout]_vars

(***************************************************************************)
(* cmd_xclient by itself, on every list of up to MaxXargs parameters.      *)
(***************************************************************************)
MaxXargs == 2

\* Parameters of XCLIENT with a value that parses and with one that does
\* not.
XclientFields ==
    {Field("ADDR", "10.0.0.2"), Field("ADDR", "h.example"),
     Field("PORT", "2525"), Field("PORT", "x"),
     Field("TTL", "3"), Field("TTL", "x"),
     Field("TIMEOUT", "30"), Field("TIMEOUT", "x")}

RECURSIVE XclientLists(_)
XclientLists(n) ==
    IF n = 0 THEN {<<>>}
    ELSE LET shorter == XclientLists(n - 1) IN
         shorter \cup {Append(l, f) : l \in shorter, f \in XclientFields}

\* A session, with or without an envelope, whose next line is an XCLIENT
\* command.
InitXclient ==
    /\ trusted \in BOOLEAN
    /\ set_lmtp_proxy = FALSE
    /\ set_limit = 0
    /\ local_port = LMTP_PORT
    /\ lmtp_hdr_delivery_address = LMTP_HDR_DELIVERY_ADDRESS_FINAL
    /\ mail_max_lock_timeout = 0
    /\ lhlo = "h1"
    /\ proxy_ttl = LMTP_PROXY_DEFAULT_TTL
    /\ proxy_timeout_secs \in {0, 4}
    /\ remote_ip = "10.0.0.9"
    /\ remote_port = 50000
    /\ mail_body_7bit = FALSE
    /\ mail_body_8bitmime = FALSE
    /\ \/ /\ mail_from = NULL
          /\ rcpt_to = <<>>
          /\ nsent = 2
          /\ output = <<Reply(1, "250 PIPELINING", 0)>>
       \/ /\ mail_from = "s1"
          /\ rcpt_to = <<mail_recipient(3, "u1", "u1")>>
          /\ nsent = 4
          /\ output = <<Reply(1, "250 PIPELINING", 0),
                        Reply(2, "250 2.1.0 OK", 0),
                        Reply(3, "250 2.1.5 OK", 3)>>
    /\ \E args \in XclientLists(MaxXargs) : input = <<Cmd("XCLIENT", args)>>
    /\ added_headers = NoObject
    /\ proxy = NoObject
    /\ anvil_query = NoObject
    /\ io = "client_input"
    /\ handling = TRUE
    /\ proxy_running = FALSE
    /\ destroyed = FALSE
    /\ wire = <<>>
    /\ ext = <<>>
    /\ NoCalls
    /\ NoBody
    /\ NoFanout
    /\ NoPushNotification
    /\ NoLmtpClient

XclientSpec == InitXclient /\ [][cmd_xclient]_vars

(***************************************************************************)
(* The lock timeout of a local delivery: the start of client_deliver.      *)
(***************************************************************************)
MaxSecs == 7

\* The mail_max_lock_timeout that client_deliver leaves in the settings of
\* the user it delivers to.
client_deliver_lock_timeout ==
    IF proxy_timeout_secs > 0
       /\ (mail_max_lock_timeout = 0
           \/ mail_max_lock_timeout > proxy_timeout_secs)
    THEN IF proxy_timeout_secs <= 1 THEN 1 ELSE proxy_timeout_secs - 1
    ELSE mail_max_lock_timeout

\* A session whose peer has declared the timeout proxy_timeout_secs (0 if
\* none), on a server with the setting mail_max_lock_timeout.
InitLock ==
    /\ trusted = TRUE
    /\ set_lmtp_proxy = FALSE
    /\ set_limit = 0
    /\ local_port = LMTP_PORT
    /\ lmtp_hdr_delivery_address = LMTP_HDR_DELIVERY_ADDRESS_FINAL
    /\ mail_max_lock_timeout \in 0 .. MaxSecs
    /\ proxy_timeout_secs \in 0 .. MaxSecs
    /\ SessionIdle
    /\ NoCalls
    /\ added_headers = NoObject
    /\ NoBody
    /\ NoFanout
    /\ NoPushNotification
    /\ NoLmtpClient

\* client_deliver sets the lock timeout of the delivery.
deliver_set_lock_timeout ==
    /\ lock_timeout = NoObject
    /\ lock_timeout' = Object(client_deliver_lock_timeout)
    /\ UNCHANGED <<settings, lmtp_client, push_notification, fanout, spool, session, mailst, lhlo, rcpt_to, proxy,
                   anvil_query, io, handling, proxy_running, destroyed, wire,
                   input, nsent, output, ext, parse_args, parse_ret>>

LockSpec == InitLock /\ [][deliver_set_lock_timeout]_vars

FairSpec ==
    /\ InitLimited
    /\ [][Next]_vars
    /\ WF_vars(rcpt_anvil_lookup_callback)
    /\ WF_vars(HandleLine)

(***************************************************************************)
(* client_proxy_rcpt_parse_fields by itself: the passdb fields of a proxied *)
(* recipient, in any order and number up to MaxFields, on a server that    *)
(* listens on the LMTP port or on another one.                             *)
(***************************************************************************)
MaxFields == 4

RouteFields ==
    {Field("proxy", ""), Field("host", "10.0.0.2"), Field("port", "25"),
     Field("port", "2525"), Field("protocol", "lmtp"),
     Field("protocol", "smtp")}

RECURSIVE FieldLists(_)
FieldLists(n) ==
    IF n = 0 THEN {<<>>}
    ELSE LET shorter == FieldLists(n - 1) IN
         shorter \cup {Append(l, f) : l \in shorter, f \in RouteFields}

InitFields ==
    /\ trusted = FALSE
    /\ set_lmtp_proxy = TRUE
    /\ set_limit = 0
    /\ local_port \in LocalPorts
    /\ lmtp_hdr_delivery_address = LMTP_HDR_DELIVERY_ADDRESS_FINAL
    /\ mail_max_lock_timeout = 0
    /\ SessionCreated
    /\ added_headers = NoObject
    /\ NoBody
    /\ NoFanout
    /\ NoPushNotification
    /\ NoLmtpClient
    /\ parse_args \in FieldLists(MaxFields)
    /\ parse_ret = NoObject
    /\ lock_timeout = NoObject

\* client_proxy_rcpt calls client_proxy_rcpt_parse_fields for user u1.
call_parse_fields ==
    /\ parse_ret = NoObject
    /\ parse_ret' = Object(client_proxy_rcpt_parse_fields(parse_args, "u1"))
    /\ UNCHANGED <<settings, lmtp_client, push_notification, fanout, spool, session, mailst, lhlo,
                   rcpt_to, proxy, anvil_query, io, handling, proxy_running,
                   destroyed, wire, input, nsent, output, ext, parse_args,
                   lock_timeout>>

FieldsSpec == InitFields /\ [][call_parse_fields]_vars

(***************************************************************************)
(* What the claims are stated with.                                        *)
(***************************************************************************)
\* This step is the handler of a `kind` line, called on the head of the
\* stream buffer.
HandlesHead(kind) == Ready(kind) /\ input' = Tail(input)

\* The reply lines and the lookups and broker messages of this step.
NewOutput == SubSeq(output', Len(output) + 1, Len(output'))
NewExt == SubSeq(ext', Len(ext) + 1, Len(ext'))

\* The step sends exactly the one line `code`, answering the head line.
AnswersHead(code) ==
    /\ Len(NewOutput) = 1
    /\ NewOutput[1].cmd = HeadNo
    /\ NewOutput[1].code = code

envelope == <<mail_from, mail_body_7bit, mail_body_8bitmime, rcpt_to, proxy>>

\* Recipients accepted in the envelope, of either class.
HasLocalRcpt == Len(rcpt_to) > 0
HasProxyRcpt == proxy # NoObject /\ Len(proxy[1].rcpts) > 0

\* Some line of output has the text `code`.
Replied(code) == \E i \in 1 .. Len(output) : output[i].code = code

(***************************************************************************)
(* C1: in every reachable state the envelope never holds both an accepted  *)
(* local recipient (an entry of rcpt_to) and an accepted proxied recipient *)
(* (a recipient of the outbound proxy).                                    *)
(***************************************************************************)
C1_NeverMixed == ~(HasLocalRcpt /\ HasProxyRcpt)

\* A local recipient was accepted after its broker lookup, and a RCPT
\* handled after it was refused as the other class.
C1_Witness ==
    /\ HasLocalRcpt
    /\ rcpt_to[1].anvil_connect_sent
    /\ \E i \in 1 .. Len(output) :
          output[i].code = ERRSTR_MIXED /\ output[i].cmd > rcpt_to[1].cmd

(***************************************************************************)
(* C2: when DATA completes for a local transaction with n accepted         *)
(* recipients, exactly n per-recipient reply lines are sent, the i-th      *)
(* about the i-th accepted recipient, whichever deliveries fail.           *)
(***************************************************************************)
\* This step is client_input_data receiving the end of the body.
DataCompletes ==
    io = "client_input_data" /\ io' # "client_input_data" /\ ~destroyed'

C2_OneReplyPerRcpt ==
    [][ (DataCompletes /\ HasLocalRcpt) =>
            /\ Len(NewOutput) = Len(rcpt_to)
            /\ \A i \in 1 .. Len(rcpt_to) :
                  /\ NewOutput[i].rcpt = rcpt_to[i].cmd
                  /\ NewOutput[i].cmd = LastNo ]_vars

\* A fan-out to two recipients is over: the delivery to the first failed and
\* the second was saved.
C2_Witness ==
    \E i \in 1 .. Len(output) - 1 :
        /\ output[i].code = "451 4.2.0 tempfail"
        /\ output[i + 1].code = "250 2.0.0 Saved"
        /\ output[i].cmd = output[i + 1].cmd
        /\ output[i].rcpt < output[i + 1].rcpt

(***************************************************************************)
(* C3: a sequence error is answered 503 5.5.1 and leaves the envelope      *)
(* unchanged: MAIL while a sender is stored changes neither the sender nor *)
(* the recipients; RCPT while no sender is stored adds no recipient and    *)
(* makes no directory or broker lookup; the session stays usable.          *)
(***************************************************************************)
StaysUsable == ~destroyed' /\ io' = "client_input" /\ anvil_query' = NoObject

C3_SequenceErrors ==
    [][ /\ (HandlesHead("MAIL") /\ mail_from # NULL) =>
              /\ AnswersHead("503 5.5.1 MAIL already given")
              /\ UNCHANGED <<envelope, ext>>
              /\ StaysUsable
        /\ (HandlesHead("RCPT") /\ mail_from = NULL) =>
              /\ AnswersHead("503 5.5.1 MAIL needed first")
              /\ UNCHANGED <<envelope, ext>>
              /\ StaysUsable ]_vars

\* Both sequence errors were answered, the MAIL one while a recipient is in
\* the envelope.
C3_Witness ==
    /\ Replied("503 5.5.1 MAIL already given")
    /\ Replied("503 5.5.1 MAIL needed first")
    /\ HasLocalRcpt
    /\ output[Len(output)].code = "503 5.5.1 MAIL already given"

(***************************************************************************)
(* C4: after MAIL FROM, DATA is answered 354 and the session starts to     *)
(* receive the body only if at least one RCPT of the envelope was          *)
(* accepted, as a local or as a proxied recipient; otherwise DATA is       *)
(* answered 554 5.5.1 and the session stays in command mode.               *)
(***************************************************************************)
C4_DataNeedsRcpt ==
    [][ (HandlesHead("DATA") /\ mail_from # NULL) =>
            IF HasLocalRcpt \/ HasProxyRcpt
            THEN AnswersHead("354 OK") /\ io' = "client_input_data"
            ELSE AnswersHead("554 5.5.1 No valid recipients")
                 /\ io' = "client_input" ]_vars

(***************************************************************************)
(* How the RCPT handled in this step was resolved by the directory.        *)
(***************************************************************************)
\* The passdb answer of this step routes the recipient to a proxy: the
\* lookup found the user and its fields say `proxy` and name a host.
PassdbRoute ==
    client_proxy_rcpt_parse_fields(NewExt[1].res.fields, Head(input).arg.addr)

ResolvesToProxy ==
    /\ HandlesHead("RCPT")
    /\ Len(NewExt) > 0
    /\ NewExt[1].op = "passdb"
    /\ NewExt[1].res.ret > 0
    /\ PassdbRoute.ok

\* The route of this step leads to the server's own IP and port.
RouteIsOwnAddress ==
    PassdbRoute.set.host = local_ip /\ PassdbRoute.set.port = local_port

\* The fields of this step's route rewrite the user name.
RouteRewritesUser == PassdbRoute.address # Head(input).arg.addr

\* The RCPT of this step was not routed to a proxy and the user lookup for
\* local delivery found the user.
ResolvesToLocal ==
    /\ HandlesHead("RCPT")
    /\ \E i \in 1 .. Len(NewExt) :
          NewExt[i].op = "userdb" /\ NewExt[i].res.ret > 0

\* The recipients added to the outbound proxy.
ProxyRcpts == IF proxy = NoObject THEN <<>> ELSE proxy[1].rcpts

\* Every outbound proxy object carries the session TTL minus one, at least 1.
ProxyTtlOk ==
    proxy # NoObject =>
        proxy[1].ttl = proxy_ttl - 1 /\ proxy[1].ttl >= 1

(***************************************************************************)
(* C5, as claimed: whenever a RCPT resolves to a proxy route while         *)
(* proxy_ttl <= 1, the reply is 554 5.4.6 "Proxying appears to be looping  *)
(* (TTL=0)", no recipient is added and no proxy object is created; every   *)
(* proxy object that exists carries the session TTL minus one, at least 1. *)
(***************************************************************************)
C5_AsClaimed ==
    /\ [][ (ResolvesToProxy /\ proxy_ttl <= 1) =>
              /\ AnswersHead(ERRSTR_LOOP_TTL)
              /\ UNCHANGED <<rcpt_to, proxy>> ]_vars
    /\ []ProxyTtlOk

(***************************************************************************)
(* C5, amended: whenever a RCPT resolves to a proxy route while            *)
(* proxy_ttl <= 1, the reply is 554 5.4.6: "Proxying loops to itself" when *)
(* the route leads to the server's own address without rewriting the user  *)
(* name, "Proxying appears to be looping (TTL=0)" otherwise; no recipient  *)
(* is added and no proxy object is created; every proxy object that exists *)
(* carries the session TTL minus one, at least 1.                          *)
(***************************************************************************)
C5_TtlExhausted ==
    /\ [][ (ResolvesToProxy /\ proxy_ttl <= 1) =>
              /\ IF RouteIsOwnAddress /\ ~RouteRewritesUser
                 THEN AnswersHead(ERRSTR_LOOP_SELF)
                 ELSE AnswersHead(ERRSTR_LOOP_TTL)
              /\ UNCHANGED <<rcpt_to, proxy>> ]_vars
    /\ []ProxyTtlOk

\* With the session TTL at 1, a routed RCPT was refused for the TTL.
C5_Witness ==
    /\ proxy_ttl = 1
    /\ mail_from # NULL
    /\ output[Len(output)].code = ERRSTR_LOOP_TTL
    /\ proxy = NoObject

(***************************************************************************)
(* C6, as claimed: every RCPT routed to a proxy destination whose host IP  *)
(* and port equal the server's own is answered 554 5.4.6 (loops to itself) *)
(* and not added to the outbound proxy.                                    *)
(***************************************************************************)
C6_AsClaimed ==
    [][ (ResolvesToProxy /\ RouteIsOwnAddress) =>
            AnswersHead(ERRSTR_LOOP_SELF) /\ UNCHANGED ProxyRcpts ]_vars

(***************************************************************************)
(* C6, amended: every RCPT routed to a proxy destination whose host IP and *)
(* port equal the server's own, by fields that do not rewrite the user     *)
(* name, is answered 554 5.4.6 (loops to itself) and not added to the      *)
(* outbound proxy.                                                         *)
(***************************************************************************)
C6_LoopsToItself ==
    [][ (ResolvesToProxy /\ RouteIsOwnAddress /\ ~RouteRewritesUser) =>
            AnswersHead(ERRSTR_LOOP_SELF) /\ UNCHANGED ProxyRcpts ]_vars

\* A RCPT routed to the server itself was refused while the TTL would have
\* allowed proxying.
C6_Witness ==
    /\ proxy_ttl > 1
    /\ mail_from # NULL
    /\ output[Len(output)].code = ERRSTR_LOOP_SELF

(***************************************************************************)
(* C7, as claimed: once a recipient of one class was accepted in an        *)
(* envelope, every later RCPT of the envelope that resolves to the other   *)
(* class is answered 451 4.3.0 "Can't handle mixed proxy/non-proxy         *)
(* destinations"; the envelope is unchanged and the session not reset.     *)
(***************************************************************************)
C7_AsClaimed ==
    [][ ((HasLocalRcpt /\ ResolvesToProxy) \/ (HasProxyRcpt /\ ResolvesToLocal))
            => /\ AnswersHead(ERRSTR_MIXED)
               /\ UNCHANGED envelope
               /\ StaysUsable ]_vars

(***************************************************************************)
(* C7, amended: once a recipient of one class was accepted in an envelope, *)
(* every later RCPT of the envelope that resolves to the other class is    *)
(* answered 451 4.3.0 "Can't handle mixed proxy/non-proxy destinations",   *)
(* except a RCPT routed to a proxy that the loop checks refuse first with  *)
(* 554 5.4.6 (own address without user rewrite, or proxy_ttl <= 1); in     *)
(* each case the envelope is unchanged and the session not reset.          *)
(***************************************************************************)
C7_ClassLocked ==
    [][ /\ (HasLocalRcpt /\ ResolvesToProxy) =>
              /\ IF RouteIsOwnAddress /\ ~RouteRewritesUser
                 THEN AnswersHead(ERRSTR_LOOP_SELF)
                 ELSE IF proxy_ttl <= 1
                 THEN AnswersHead(ERRSTR_LOOP_TTL)
                 ELSE AnswersHead(ERRSTR_MIXED)
              /\ UNCHANGED envelope
              /\ StaysUsable
        /\ (HasProxyRcpt /\ ResolvesToLocal) =>
              /\ AnswersHead(ERRSTR_MIXED)
              /\ UNCHANGED envelope
              /\ StaysUsable ]_vars

\* A proxied recipient is in the envelope and a later RCPT, for a local
\* user, was refused as mixed.
C7_Witness ==
    /\ HasProxyRcpt
    /\ output[Len(output)].code = ERRSTR_MIXED
    /\ output[Len(output)].cmd > proxy[1].rcpts[1].cmd
    /\ ext[Len(ext)].op = "userdb"

(***************************************************************************)
(* C8: while the broker LOOKUP of a RCPT is pending the session consumes   *)
(* no line of the stream buffer and sends no reply; the step that ends the *)
(* wait sends the reply of that RCPT and nothing else; and the replies in  *)
(* output are in the order of the command lines they answer.               *)
(***************************************************************************)
Pending == anvil_query # NoObject

RepliesInOrder ==
    \A i, j \in 1 .. Len(output) : i < j => output[i].cmd <= output[j].cmd

C8_IntakeSuspended ==
    /\ []RepliesInOrder
    /\ [][ Pending =>
              /\ input' = input
              /\ IF Pending'
                 THEN output' = output
                 ELSE /\ Len(NewOutput) = 1
                      /\ NewOutput[1].cmd = anvil_query[1].cmd
                      /\ NewOutput[1].cmd = LastNo ]_vars

\* A broker lookup is pending with a pipelined line buffered behind it.
C8_Witness == Pending /\ input # <<>>

(***************************************************************************)
(* C9: every suspension of command intake for a broker lookup is followed  *)
(* by a resumption: the callback fires, the RCPT gets its reply, the input *)
(* callback is installed again, and every line buffered behind the RCPT is *)
(* handled, unless the session was ended or has entered the DATA phase     *)
(* before its turn.                                                        *)
(***************************************************************************)
Buffered(n) == HeadNo <= n /\ n < HeadNo + Len(input)

InDataPhase == io = "client_input_data" \/ proxy_running

C9_Resumes ==
    /\ Pending ~> (~Pending /\ io = "client_input")
    /\ \A n \in 1 .. MaxCmds :
          (Pending /\ anvil_query[1].cmd = n)
              ~> (\E i \in 1 .. Len(output) :
                     output[i].cmd = n /\ output[i].rcpt = n)
    /\ \A n \in 1 .. MaxCmds :
          (Pending /\ Buffered(n))
              ~> (LastNo >= n \/ destroyed \/ InDataPhase)

\* The lookup of a RCPT has been answered and a line that was buffered
\* behind it has since been handled.
C9_Witness ==
    /\ \E i \in 1 .. Len(ext) :
          /\ ext[i].op = "REPLY"
          /\ LastNo > ext[i].cmd
          /\ \E j \in 1 .. Len(output) : output[j].cmd > ext[i].cmd
    /\ ~Pending
    /\ io = "client_input"

(***************************************************************************)
(* C10: with a concurrency limit L > 0, a LOOKUP reply that is a count     *)
(* >= L makes the RCPT answered 451 4.3.0 "Too many concurrent deliveries  *)
(* for user", not appended to rcpt_to, with no CONNECT sent; a CONNECT is  *)
(* sent at most once per RCPT, only by the callback of its lookup, and     *)
(* only when the reply was a count below L and the RCPT was accepted with  *)
(* 250 2.1.5 OK.                                                           *)
(***************************************************************************)
SendsConnect == \E i \in 1 .. Len(NewExt) : NewExt[i].op = "CONNECT"

C10_LimitAndConnect ==
    /\ [][ IF Pending /\ ~Pending'
           THEN LET reply == NewExt[1].res
                    n == anvil_query[1].cmd
                IN
                /\ set_limit > 0
                /\ (reply.reply = "number" /\ reply.count >= set_limit) =>
                      /\ NewOutput = <<Reply(n, ERRSTR_TOO_MANY, n)>>
                      /\ rcpt_to' = rcpt_to
                      /\ ~SendsConnect
                /\ SendsConnect =>
                      /\ reply.reply = "number"
                      /\ reply.count < set_limit
                      /\ NewOutput = <<Reply(n, "250 2.1.5 OK", n)>>
                      /\ Len(rcpt_to') = Len(rcpt_to) + 1
                      /\ rcpt_to'[Len(rcpt_to')].cmd = n
           ELSE ~SendsConnect ]_vars
    /\ [](\A i, j \in 1 .. Len(ext) :
             (i < j /\ ext[i].op = "CONNECT" /\ ext[j].op = "CONNECT")
                 => ext[i].cmd # ext[j].cmd)

(***************************************************************************)
(* C11: when the broker lookup of a RCPT fails (the callback gets no       *)
(* reply, or a reply that is no number), the RCPT is answered with a 451   *)
(* or 452 line about that recipient and the session continues.             *)
(***************************************************************************)
TempFailCodes ==
    {ERRSTR_TOO_MANY, ERRSTR_TEMP_MAILBOX_FAIL, ERRSTR_TEMP_USERDB_FAIL,
     "452 4.2.2 Quota exceeded"}

C11_BrokerFailureTempFails ==
    [][ (Pending /\ ~Pending' /\ NewExt[1].res.reply # "number") =>
            /\ Len(NewOutput) = 1
            /\ NewOutput[1].rcpt = anvil_query[1].cmd
            /\ NewOutput[1].code \in TempFailCodes
            /\ StaysUsable ]_vars

(***************************************************************************)
(* C12: within a transaction rcpt_to and the recipients of the proxy only  *)
(* grow by one entry appended at the end; otherwise they are discarded     *)
(* whole, together with the sender and the proxy object.  RSET and the end *)
(* of the DATA phase (after the local fan-out or after client_proxy_finish)*)
(* discard them and keep lhlo; from then on the sender stays unset, and    *)
(* RCPT is answered 503, until a MAIL is accepted.                         *)
(***************************************************************************)
IsAppend(old, new) ==
    Len(new) = Len(old) + 1 /\ SubSeq(new, 1, Len(old)) = old

DataFinishes ==
    /\ io = "client_input_data" \/ proxy_running
    /\ io' = "client_input"

C12_AppendOnlyUntilReset ==
    [][ /\ \/ UNCHANGED <<mail_from, rcpt_to, ProxyRcpts>>
           \/ mail_from' = mail_from /\ IsAppend(rcpt_to, rcpt_to')
                 /\ UNCHANGED ProxyRcpts
           \/ mail_from' = mail_from /\ IsAppend(ProxyRcpts, ProxyRcpts')
                 /\ UNCHANGED rcpt_to
           \/ mail_from' = NULL /\ rcpt_to' = <<>> /\ proxy' = NoObject
           \/ mail_from = NULL /\ HandlesHead("MAIL")
                 /\ AnswersHead("250 2.1.0 OK")
                 /\ rcpt_to' = <<>> /\ proxy' = NoObject
        /\ (HandlesHead("RSET") \/ DataFinishes) =>
              /\ mail_from' = NULL
              /\ rcpt_to' = <<>>
              /\ proxy' = NoObject
              /\ lhlo' = lhlo
        /\ (HandlesHead("RCPT") /\ mail_from = NULL) =>
              AnswersHead("503 5.5.1 MAIL needed first") ]_vars

\* After LHLO a recipient was accepted and the next line was RSET: the
\* envelope is gone and the LHLO name is still known.
C12_Witness ==
    /\ lhlo # NULL
    /\ mail_from = NULL
    /\ rcpt_to = <<>>
    /\ proxy = NoObject
    /\ Len(output) >= 2
    /\ output[Len(output) - 1].code = "250 2.1.5 OK"
    /\ output[Len(output)] =
           Reply(output[Len(output) - 1].cmd + 1, "250 2.0.0 OK", 0)

(***************************************************************************)
(* C13: when the passdb lookup of a RCPT finds the user with a `proxy`     *)
(* field and no `host` field, the RCPT is answered 451 4.3.0 (user lookup  *)
(* failure) and is consumed: no recipient is added to the proxy or to      *)
(* rcpt_to, and neither the userdb lookup nor the broker lookup of the     *)
(* local path is made.                                                     *)
(***************************************************************************)
HasField(fields, key) == \E i \in 1 .. Len(fields) : fields[i].key = key

ProxyWithoutHost ==
    /\ HandlesHead("RCPT")
    /\ Len(NewExt) > 0
    /\ NewExt[1].op = "passdb"
    /\ NewExt[1].res.ret > 0
    /\ HasField(NewExt[1].res.fields, "proxy")
    /\ ~HasField(NewExt[1].res.fields, "host")

C13_ProxyWithoutHostConsumed ==
    [][ ProxyWithoutHost =>
            /\ AnswersHead(ERRSTR_TEMP_USERDB_FAIL)
            /\ Len(NewExt) = 1
            /\ UNCHANGED <<rcpt_to, proxy, anvil_query>> ]_vars

(***************************************************************************)
(* The fields given to a call of client_proxy_rcpt_parse_fields that       *)
(* returned TRUE, and the settings it left.                                *)
(***************************************************************************)
Proxied == parse_ret # NoObject /\ parse_ret[1].ok

Given(key) == HasField(parse_args, key)
GivenField(key, value) ==
    \E i \in 1 .. Len(parse_args) : parse_args[i] = Field(key, value)

\* The value of the last field `key` of the call.
LastGiven(key) ==
    LET i == CHOOSE k \in 1 .. Len(parse_args) :
                 /\ parse_args[k].key = key
                 /\ \A l \in k + 1 .. Len(parse_args) : parse_args[l].key # key
    IN  parse_args[i].value

\* The protocol is LMTP unless protocol=smtp is given, and a port given
\* explicitly is the destination port.
ProtocolAndGivenPort ==
    /\ ~GivenField("protocol", "smtp") => parse_ret[1].set.protocol = "lmtp"
    /\ parse_ret[1].set.protocol \in {"lmtp", "smtp"}
    /\ Given("port") =>
          parse_ret[1].set.port = net_str2port(LastGiven("port"))

(***************************************************************************)
(* C14, as claimed: for every list of fields of a proxied recipient the    *)
(* protocol is LMTP unless protocol=smtp is given; a port given explicitly *)
(* is the destination port; with no port given the destination port is 24  *)
(* for LMTP (the default protocol included) and 25 for SMTP.               *)
(***************************************************************************)
C14_AsClaimed ==
    Proxied =>
        /\ ProtocolAndGivenPort
        /\ ~Given("port") =>
              parse_ret[1].set.port =
                  IF parse_ret[1].set.protocol = "lmtp" THEN 24 ELSE 25

(***************************************************************************)
(* C14, amended: for every list of fields of a proxied recipient the       *)
(* protocol is LMTP unless protocol=smtp is given; a port given explicitly *)
(* is the destination port; with no port given the destination port is 24  *)
(* when the protocol was given as lmtp, 25 when it was given as smtp, and  *)
(* the server's own local port when no protocol field is given.            *)
(***************************************************************************)
C14_ProtocolAndPort ==
    Proxied =>
        /\ ProtocolAndGivenPort
        /\ ~Given("port") =>
              parse_ret[1].set.port =
                  IF ~Given("protocol") THEN local_port
                  ELSE IF parse_ret[1].set.protocol = "lmtp" THEN 24 ELSE 25

\* A recipient is proxied by SMTP to the port given before the protocol.
C14_Witness ==
    /\ Proxied
    /\ parse_ret[1].set.protocol = "smtp"
    /\ parse_ret[1].set.port = 2525
    /\ \E i, j \in 1 .. Len(parse_args) :
          /\ i < j
          /\ parse_args[i] = Field("port", "2525")
          /\ parse_args[j] = Field("protocol", "smtp")

(***************************************************************************)
(* C15.  For any sequence of body appends, the spool stays in memory while *)
(* the total appended size is at most CLIENT_MAIL_DATA_MAX_INMEMORY_SIZE   *)
(* (the buffer is then the whole body); the first append that would exceed *)
(* it makes the file, which after a successful append holds the whole      *)
(* in-memory prefix and the new data; and once there is a file it stays,   *)
(* every later append goes to its end and the buffer is never modified     *)
(* again.                                                                  *)
(***************************************************************************)
Appended == body_read' # body_read

C16_PromotionTransparent ==
    data_input # NoObject => data_input[1] = added_headers \o body_read

\* The stream was built from a file that was made at the third piece.
C16_Witness ==
    /\ data_input # NoObject
    /\ mail_data_output # NoObject
    /\ Len(mail_data) = 2
    /\ Len(body_read) = 3
    /\ Len(data_input[1]) = 4
(***************************************************************************)
(* C17.  If data cannot be added to the spool during DATA, or the peer     *)
(* disconnects before the end-of-data line, the session is destroyed; the  *)
(* only line sent is 451 4.3.0 Temporary internal failure, in the spool    *)
(* case; no local delivery is made and the proxy is not started; and a     *)
(* destroyed session sends nothing more, so that no per-recipient reply is *)
(* ever sent.                                                              *)
(***************************************************************************)
C17_BodyFailureDestroys ==
    [][/\ (io = "client_input_data" /\ (add_ret' < 0 \/ destroyed'))
           => /\ destroyed'
              /\ output' = IF add_ret' < 0
                           THEN Append(output,
                                    Reply(LastNo,
                                          "451 4.3.0 Temporary internal failure",
                                          0))
                           ELSE output
              /\ ext' = ext
              /\ ~proxy_running'
       /\ destroyed
           => /\ destroyed'
              /\ output' = output
              /\ ext' = ext
              /\ ~proxy_running']_vars

\* The spool failed in a transaction with a local recipient and the session
\* is gone.
C17_Witness ==
    /\ destroyed
    /\ add_ret < 0
    /\ HasLocalRcpt
    /\ output[Len(output)].code = "451 4.3.0 Temporary internal failure"
(***************************************************************************)
(* C18.  added_headers is computed exactly once per transaction, by the    *)
(* step that accepts DATA, from the envelope as it is then (the sender,    *)
(* the LHLO name, a recipient of the envelope); after that it changes only *)
(* by being dropped with the transaction; and the message given to every   *)
(* delivery of the transaction, each local recipient's and the proxy's,    *)
(* begins with that block.                                                 *)
(***************************************************************************)
AcceptsData == io = "client_input" /\ io' = "client_input_data"

Deliveries(log) ==
    {i \in 1 .. Len(log) : log[i].op \in {"client_deliver", "lmtp_proxy_start"}}

C18_HeadersOncePerTransaction ==
    [][/\ AcceptsData
           => /\ added_headers = NoObject
              /\ added_headers' # NoObject
              /\ added_headers'[1].return_path \in {NULL, mail_from}
              /\ added_headers'[1].received_from = lhlo
              /\ added_headers'[1].received_for
                     \in {NULL} \cup {rcpt_to[i].address : i \in 1 .. Len(rcpt_to)}
              /\ added_headers'[1].delivered_to
                     = IF added_headers'[1].return_path = NULL THEN NULL
                       ELSE added_headers'[1].received_for
       /\ (added_headers' # added_headers /\ ~AcceptsData)
           => /\ added_headers' = NoObject
              /\ envelope' = <<NULL, FALSE, FALSE, <<>>, NoObject>>
       /\ \A i \in Deliveries(NewExt) :
              /\ added_headers # NoObject
              /\ NewExt[i].res # <<>>
              /\ NewExt[i].res[1] = added_headers[1]]_vars

\* A transaction with two local recipients: both deliveries were given the
\* same message, which begins with the Return-Path of the sender.
C18_Witness ==
    \E i, j \in Deliveries(ext) :
       /\ i < j
       /\ ext[i].op = "client_deliver"
       /\ ext[j].op = "client_deliver"
       /\ ext[i].cmd # ext[j].cmd
       /\ ext[i].res = ext[j].res
       /\ ext[i].res[1].return_path # NULL
(***************************************************************************)
(* C19.  As claimed: every message handed to a delivery, local or proxied, *)
(* has the Return-Path line of the sender in its header block, and         *)
(* Delivered-To and the for clause of Received appear only when the        *)
(* envelope has exactly one accepted recipient and the delivery-address    *)
(* setting is not none.  (Stated for the transactions that have an         *)
(* accepted recipient.)                                                    *)
(***************************************************************************)
AcceptedRcpts ==
    Len(rcpt_to) + (IF proxy = NoObject THEN 0 ELSE Len(proxy[1].rcpts))

C19_AsClaimed ==
    [][\A i \in Deliveries(NewExt) :
          LET h == NewExt[i].res[1] IN
          AcceptedRcpts > 0 =>
          /\ h.return_path = mail_from
          /\ (h.delivered_to # NULL \/ h.received_for # NULL)
                => /\ AcceptedRcpts = 1
                   /\ lmtp_hdr_delivery_address
                          # LMTP_HDR_DELIVERY_ADDRESS_NONE]_vars

(***************************************************************************)
(* C19, amended.  Every message handed to a local delivery has the         *)
(* Return-Path line of the sender in its header block, and the message     *)
(* handed to the proxy has none; Delivered-To and the for clause of        *)
(* Received appear exactly when the message is delivered locally, the      *)
(* envelope has exactly one recipient and the delivery-address setting is  *)
(* not none, and they then name that recipient.                            *)
(***************************************************************************)
C19_ReturnPathOnlyLocal ==
    [][\A i \in Deliveries(NewExt) :
          LET h == NewExt[i].res[1]
              named == /\ NewExt[i].op = "client_deliver"
                       /\ Len(rcpt_to) = 1
                       /\ lmtp_hdr_delivery_address
                              # LMTP_HDR_DELIVERY_ADDRESS_NONE
          IN
          /\ h.return_path = IF NewExt[i].op = "client_deliver"
                             THEN mail_from ELSE NULL
          /\ mail_from # NULL
          /\ h.delivered_to = IF named THEN rcpt_to[1].address ELSE NULL
          /\ h.received_for = IF named THEN rcpt_to[1].address ELSE NULL]_vars

\* A message was handed to the proxy, with a header block that has neither
\* Return-Path nor Delivered-To.
C19_Witness ==
    \E i \in Deliveries(ext) :
       /\ HasProxyRcpt
       /\ ext[i].op = "lmtp_proxy_start"
       /\ ext[i].res[1].return_path = NULL
       /\ ext[i].res[1].delivered_to = NULL
       /\ ext[i].res[1].received_from # NULL
(***************************************************************************)
(* C20.  For every timeout s declared by the peer and every configured     *)
(* mail_max_lock_timeout e: if s > 0 the lock timeout of a local delivery  *)
(* is at most max(1, s - 1) seconds, and if s is 0 it is e, unchanged.     *)
(***************************************************************************)
C20_LockTimeoutTrimmed ==
    lock_timeout # NoObject
        => IF proxy_timeout_secs > 0
           THEN lock_timeout[1]
                   <= (IF proxy_timeout_secs - 1 > 1
                       THEN proxy_timeout_secs - 1 ELSE 1)
           ELSE lock_timeout[1] = mail_max_lock_timeout
(***************************************************************************)
(* C21.  In a local fan-out every delivery made after the first delivery   *)
(* that returned a saved mail has that mail as its source, and the ones    *)
(* before it the raw mail; at most one delivery ever returns a saved mail, *)
(* and the assertion that first_saved_mail is unset then never fails; and  *)
(* the first saved mail and its user are held until all recipients have    *)
(* been processed and are released after that.                             *)
(***************************************************************************)
Saving == {k \in 1 .. Len(deliveries) : deliveries[k].dest_mail # NoMail}

C21_FirstSavedMail ==
    /\ fan_pc # "panic"
    /\ Cardinality(Saving) <= 1
    /\ \A k \in 1 .. Len(deliveries) :
          /\ deliveries[k].rcpt = k
          /\ deliveries[k].src_mail
                = IF \E j \in Saving : j < k
                  THEN deliveries[CHOOSE j \in Saving : j < k].dest_mail
                  ELSE raw_mail
    /\ first_saved_mail
          = IF Saving = {} THEN NoMail
            ELSE deliveries[CHOOSE j \in Saving : TRUE].dest_mail
    /\ fan_pc = "deliver" /\ first_saved_mail # NoMail
          => /\ freed_mails = {}
             /\ first_saved_mail.owner \in live_users
    /\ freed_mails # {}
          => /\ fan_pc = "done"
             /\ Len(deliveries) = Len(rcpt_to)
             /\ freed_mails = {first_saved_mail}
             /\ live_users = {}

\* Three recipients: the first delivery failed, the second returned the
\* saved mail, the third was made from it, and the mail has been released.
C21_Witness ==
    /\ fan_pc = "done"
    /\ Len(deliveries) = 3
    /\ deliveries[1].ret # 0
    /\ deliveries[2].dest_mail # NoMail
    /\ deliveries[3].src_mail = deliveries[2].dest_mail
    /\ deliveries[3].ret = 0
    /\ freed_mails = {deliveries[2].dest_mail}
(***************************************************************************)
(* C22.  An XCLIENT command that is rejected, with 550 because the peer is *)
(* not trusted or with 501 because the value of one of its parameters is   *)
(* invalid, changes no session attribute (remote address, remote port,     *)
(* TTL, peer timeout) and does not reset the envelope, whatever its other  *)
(* parameters are; and it is rejected whenever the peer is not trusted or  *)
(* a value is invalid.                                                     *)
(***************************************************************************)
InvalidXclientValue(f) ==
    \/ f.key = "ADDR" /\ f.value \notin IpLiterals
    \/ f.key = "PORT" /\ f.value \notin PortStrings
    \/ f.key \in {"TTL", "TIMEOUT"} /\ f.value \notin UintStrings

XclientToReject ==
    \/ ~trusted
    \/ \E i \in 1 .. Len(Head(input).arg) :
          InvalidXclientValue(Head(input).arg[i])

C22_RejectedXclientChangesNothing ==
    [][HandlesHead("XCLIENT")
        => /\ XclientToReject
              <=> \/ AnswersHead("550 You are not from trusted IP")
                  \/ AnswersHead("501 Invalid parameters")
           /\ XclientToReject
              => UNCHANGED <<session, envelope, added_headers, lhlo>>]_vars

\* A trusted peer's XCLIENT was answered 501 in a session that has an
\* envelope and a peer timeout: both are as they were.
C22_Witness ==
    /\ trusted
    /\ output[Len(output)].code = "501 Invalid parameters"
    /\ mail_from = "s1"
    /\ Len(rcpt_to) = 1
    /\ proxy_timeout_secs = 4

(***************************************************************************)
(* The outbound client (lmtp-client.c).  One client and the server at the  *)
(* other end of its connection are modelled.  The caller connects it, adds *)
(* recipients and gives it the body once; the client writes command lines  *)
(* to lmtp_output and reads the reply lines in lmtp_input one line per     *)
(* step of lmtp_client_input.  A reply line is its text, a sequence of     *)
(* characters, together with what the server meant by it: the command and  *)
(* the recipient it answers.  Every callback made is appended to           *)
(* callbacks.                                                              *)
(***************************************************************************)
MaxClientRcpts == 3
MaxBody == 4

server == <<settings, fanout, calls, spool, session, mailst, lhlo, rcpt_to,
            proxy, anvil_query, io, handling, proxy_running, destroyed,
            wire, input, nsent, output, ext>>

\* The address of the n-th recipient the caller adds.
Addresses == <<"r1", "r2", "r3", "r4">>
Address(n) == Addresses[n]

\* struct lmtp_rcpt.
lmtp_rcpt(address) == [address |-> address, failed |-> FALSE]

OutCmd(kind, arg) == [kind |-> kind, arg |-> arg]
Line(text, cmd, about) == [text |-> text, cmd |-> cmd, about |-> about]
Callback(cb, idx, success, text) ==
    [cb |-> cb, rcpt |-> idx, success |-> success, line |-> text]

\* line[i] of a C string: the character, NUL at its end.
line_at(text, i) == IF i < Len(text) THEN text[i + 1] ELSE NUL

DigitChars == <<"0", "1", "2", "3", "4", "5", "6", "7", "8", "9">>
i_isdigit(c) == \E k \in 1 .. Len(DigitChars) : DigitChars[k] = c
DigitValue(c) == (CHOOSE k \in 1 .. Len(DigitChars) : DigitChars[k] = c) - 1

\* Mutant of lmtp_input_get_reply_code: a line of a multiline reply is
\* taken for the final reply.
lmtp_input_get_reply_code_no_multiline(text) ==
    IF \/ ~i_isdigit(line_at(text, 0))
       \/ ~i_isdigit(line_at(text, 1))
       \/ ~i_isdigit(line_at(text, 2))
    THEN [ret |-> -1, code |-> 0]
    ELSE LET code == DigitValue(line_at(text, 0)) * 100
                       + DigitValue(line_at(text, 1)) * 10
                       + DigitValue(line_at(text, 2))
         IN  IF line_at(text, 3) \in {" ", "-"} THEN [ret |-> 1, code |-> code]
             ELSE [ret |-> -1, code |-> code]

\* lmtp_input_get_reply_code: ret is 1 for a final reply, 0 for a line of a
\* multiline reply, -1 for invalid input; code is *reply_code_r.
lmtp_input_get_reply_code(text) ==
    IF \/ ~i_isdigit(line_at(text, 0))
       \/ ~i_isdigit(line_at(text, 1))
       \/ ~i_isdigit(line_at(text, 2))
    THEN [ret |-> -1, code |-> 0]
    ELSE LET code == DigitValue(line_at(text, 0)) * 100
                       + DigitValue(line_at(text, 1)) * 10
                       + DigitValue(line_at(text, 2))
         IN  IF line_at(text, 3) = " " THEN [ret |-> 1, code |-> code]
             ELSE IF line_at(text, 3) = "-" THEN [ret |-> 0, code |-> code]
             ELSE [ret |-> -1, code |-> code]

\* strncmp(line, "354", 3) == 0.
starts_354(text) ==
    /\ line_at(text, 0) = "3"
    /\ line_at(text, 1) = "5"
    /\ line_at(text, 2) = "4"

ERRSTR_CONNECT == <<"4", "5", "1", " ", "(connect)">>
ERRSTR_DISCONNECTED == <<"4", "5", "1", " ", "(disconnected in output)">>

\* lmtp_client_close: the streams, the io and the descriptor are released.
lmtp_client_close ==
    /\ lmtp_io' = NULL
    /\ lmtp_input' = <<>>
    /\ fd' = -1
    /\ lmtp_data_input' = NoObject

\* The callbacks lmtp_client_fail makes: rcpt_to callbacks from
\* rcpt_next_receive_idx on, then data callbacks from rcpt_next_data_idx on
\* for the recipients that are not failed by then.
fail_callbacks(text) ==
    LET count == Len(recipients)
        failed(i) == i > rcpt_next_receive_idx \/ recipients[i].failed
        first == [k \in 1 .. count - rcpt_next_receive_idx |->
                    Callback("rcpt_to", rcpt_next_receive_idx + k, FALSE,
                             text)]
        second == [k \in 1 .. count - rcpt_next_data_idx |->
                     Callback("data", rcpt_next_data_idx + k, FALSE, text)]
    IN  first \o SelectSeq(second, LAMBDA c : ~failed(c.rcpt))

\* lmtp_client_fail(client, line).
lmtp_client_fail(text) ==
    /\ global_fail_string' = Object(text)
    /\ callbacks' = callbacks \o fail_callbacks(text)
    /\ recipients' = [i \in 1 .. Len(recipients) |->
                        IF i > rcpt_next_receive_idx
                        THEN [recipients[i] EXCEPT !.failed = TRUE]
                        ELSE recipients[i]]
    /\ rcpt_next_receive_idx' = Len(recipients)
    /\ rcpt_next_data_idx' = Len(recipients)
    /\ lmtp_client_close
    /\ UNCHANGED <<protocol, input_state, rcpt_next_send_idx, lmtp_output,
                   output_last, output_finished, data_left, body_output>>

\* Mutant of send_rcpts_lines: every recipient is written, sent or not.
send_rcpts_lines_from_start(rcpts) ==
    [k \in 1 .. Len(rcpts) |-> OutCmd("RCPT", rcpts[k].address)]

\* The RCPT TO lines lmtp_client_send_rcpts writes for the recipients rcpts.
send_rcpts_lines(rcpts) ==
    [k \in 1 .. Len(rcpts) - rcpt_next_send_idx |->
        OutCmd("RCPT", rcpts[rcpt_next_send_idx + k].address)]

\* lmtp_client_send_rcpts, the recipients being rcpts.
lmtp_client_send_rcpts(rcpts) ==
    /\ lmtp_output' = lmtp_output \o send_rcpts_lines(rcpts)
    /\ rcpt_next_send_idx' =
          IF rcpt_next_send_idx < Len(rcpts) THEN Len(rcpts)
          ELSE rcpt_next_send_idx

\* The lines lmtp_client_send_handshake writes.
lmtp_client_send_handshake ==
    <<OutCmd(IF protocol = "lmtp" THEN "LHLO" ELSE "EHLO", "my_hostname"),
      OutCmd("MAIL", "mail_from")>>

\* The scan of lmtp_client_send_data over the bytes data it has read, last
\* being client->output_last: the number of bytes before the first LF that
\* lacks its CR or the first '.' that follows an LF.
scan_data(data, last) ==
    LET prev(k) == IF k = 1 THEN last ELSE data[k - 1]
        special(k) == \/ data[k] = LF /\ prev(k) # CR
                      \/ data[k] = "." /\ prev(k) = LF
        found == {k \in 1 .. Len(data) : special(k)}
    IN  IF found = {} THEN Len(data)
        ELSE (CHOOSE k \in found : \A j \in found : k <= j) - 1

\* The while loop of lmtp_client_send_data over the bytes data that the
\* stream can give now.  full: the output buffer is full and cannot be
\* flushed when the loop first asks, so the call returns to continue later.
\* rest is what the loop left unread.  The loop ends with ret < 0 when the
\* stream is at its end (eof) and with ret = 0 otherwise.
RECURSIVE send_data_loop(_, _, _, _)
send_data_loop(data, last, out, full) ==
    IF data = <<>>
    THEN [rest |-> <<>>, last |-> last, out |-> out, returned |-> FALSE]
    ELSE LET i == scan_data(data, last)
             add == IF i = Len(data) THEN NUL
                    ELSE IF data[i + 1] = LF THEN CR ELSE "."
             last1 == IF i > 0 THEN data[i] ELSE last
             out1 == out \o SubSeq(data, 1, i)
             rest == SubSeq(data, i + 1, Len(data))
         IN  IF full
             THEN [rest |-> rest, last |-> last1, out |-> out1,
                   returned |-> TRUE]
             ELSE IF add = NUL
             THEN send_data_loop(rest, last1, out1, FALSE)
             ELSE send_data_loop(rest, add, out1 \o <<add>>, FALSE)

\* lmtp_client_send_data when the stream data_input can give n more bytes
\* now; eof: i_stream_read_data returns -1 after them, which it does at the
\* end of the stream and also on a read error, with bytes left unread.
lmtp_client_send_data(left, n, eof, full) ==
    IF output_finished
    THEN UNCHANGED <<output_last, output_finished, data_left, body_output>>
    ELSE LET loop == send_data_loop(SubSeq(left, 1, n), output_last,
                                    body_output, full)
             rest == loop.rest \o SubSeq(left, n + 1, Len(left))
         IN  /\ data_left' = rest
             /\ IF loop.returned \/ ~eof
                THEN /\ body_output' = loop.out
                     /\ output_last' = loop.last
                     /\ output_finished' = FALSE
                ELSE /\ body_output' =
                          loop.out
                            \o (IF loop.last # LF THEN <<CR, LF>> ELSE <<>>)
                            \o <<".", CR, LF>>
                     /\ output_last' = loop.last
                     /\ output_finished' = TRUE

\* lmtp_client_rcpt_next(client, line): TRUE when DATA is to be sent.
lmtp_client_rcpt_next(text) ==
    LET success == line_at(text, 0) = "2"
        idx == rcpt_next_receive_idx + 1
    IN  IF idx > Len(recipients)
        THEN /\ panicked' = TRUE
             /\ UNCHANGED <<recipients, callbacks, rcpt_next_receive_idx>>
        ELSE /\ recipients' = [recipients EXCEPT ![idx].failed = ~success]
             /\ callbacks' = Append(callbacks,
                                    Callback("rcpt_to", idx, success, text))
             /\ rcpt_next_receive_idx' = idx
             /\ UNCHANGED panicked

\* Mutant of rcpt_next_ret: the body is not asked for.
rcpt_next_ret_without_body ==
    rcpt_next_receive_idx + 1 = Len(recipients)

rcpt_next_ret ==
    /\ rcpt_next_receive_idx + 1 = Len(recipients)
    /\ lmtp_data_input # NoObject

\* Mutant of lmtp_client_data_next: a reply is for one recipient in SMTP
\* mode too.
lmtp_client_data_next_one_by_one(text) ==
    LET failed == line_at(text, 0) # "2"
        idx == rcpt_next_data_idx + 1
    IN  IF idx > Len(recipients)
        THEN /\ panicked' = TRUE
             /\ UNCHANGED <<recipients, callbacks, rcpt_next_data_idx>>
        ELSE /\ recipients' = [recipients EXCEPT ![idx].failed = failed]
             /\ callbacks' = Append(callbacks,
                                    Callback("data", idx, ~failed, text))
             /\ rcpt_next_data_idx' = idx
             /\ UNCHANGED panicked

\* lmtp_client_data_next(client, line); its return value is !last.
lmtp_client_data_next(text) ==
    LET failed == line_at(text, 0) # "2"
        count == Len(recipients)
    IN  IF protocol = "smtp"
        THEN IF rcpt_next_data_idx # 0
             THEN /\ panicked' = TRUE
                  /\ UNCHANGED <<recipients, callbacks, rcpt_next_data_idx>>
             ELSE /\ recipients' = [i \in 1 .. count |->
                                      [recipients[i] EXCEPT !.failed = failed]]
                  /\ callbacks' = callbacks
                       \o [i \in 1 .. count |->
                             Callback("data", i, ~failed, text)]
                  /\ rcpt_next_data_idx' = count
                  /\ UNCHANGED panicked
        ELSE LET idx == rcpt_next_data_idx + 1
             IN  IF idx > count
                 THEN /\ panicked' = TRUE
                      /\ UNCHANGED <<recipients, callbacks,
                                     rcpt_next_data_idx>>
                 ELSE /\ recipients' =
                           [recipients EXCEPT ![idx].failed = failed]
                      /\ callbacks' = Append(callbacks,
                                             Callback("data", idx, ~failed,
                                                      text))
                      /\ rcpt_next_data_idx' = idx
                      /\ UNCHANGED panicked

conn == <<fd, lmtp_io, lmtp_data_input>>
idxs == <<rcpt_next_receive_idx, rcpt_next_data_idx, rcpt_next_send_idx>>
dot == <<output_last, output_finished, data_left, body_output>>

\* The bodies the caller gives the client, and how the stream gives them.
ClientBodies == {<<"a">>}

\* lmtp_client_connect_tcp returning 0: the connection is being made.
lmtp_client_connect_tcp ==
    /\ ~panicked
    /\ fd = -1
    /\ lmtp_io = NULL
    /\ global_fail_string = NoObject
    /\ \E p \in {"lmtp", "smtp"} : protocol' = p
    /\ fd' = 0
    /\ lmtp_io' = "lmtp_client_wait_connect"
    /\ input_state' = LMTP_INPUT_STATE_GREET
    /\ UNCHANGED <<server, push_notification, global_fail_string, recipients, idxs,
                   lmtp_data_input, lmtp_output, lmtp_input, dot, callbacks,
                   send_called, upstream, panicked>>

\* lmtp_client_wait_connect: the connection failed (err) or was made.  The
\* lines that have arrived are then read by lmtp_client_input.
lmtp_client_wait_connect ==
    /\ ~panicked
    /\ lmtp_io = "lmtp_client_wait_connect"
    /\ \E err \in BOOLEAN :
          IF err
          THEN /\ ~upstream.greeted
               /\ lmtp_client_fail(ERRSTR_CONNECT)
          ELSE /\ lmtp_io' = "lmtp_client_input"
               /\ UNCHANGED <<protocol, input_state, global_fail_string,
                              recipients, idxs, lmtp_data_input, fd,
                              lmtp_output, lmtp_input, dot, callbacks>>
    /\ UNCHANGED <<server, push_notification, send_called, upstream, panicked>>

\* lmtp_client_input_line(client, line) for the next line lmtp_client_input
\* reads; n, eof and full say what lmtp_client_send_data finds.
lmtp_client_input_line(text, n, eof, full) ==
    LET reply == lmtp_input_get_reply_code(text)
        read == lmtp_input' = Tail(lmtp_input)
        fail == lmtp_client_fail(text) /\ UNCHANGED panicked
    IN  CASE reply.ret = 0 ->
               /\ read
               /\ UNCHANGED <<protocol, input_state, global_fail_string,
                              recipients, idxs, conn, lmtp_output, dot,
                              callbacks, panicked>>
          [] reply.ret < 0 -> fail
          [] reply.ret > 0 /\ input_state = LMTP_INPUT_STATE_GREET ->
               IF reply.code # 220
               THEN fail
               ELSE /\ read
                    /\ lmtp_output' = lmtp_output \o lmtp_client_send_handshake
                    /\ input_state' = input_state + 1
                    /\ UNCHANGED <<protocol, global_fail_string, recipients,
                                   idxs, conn, dot, callbacks, panicked>>
          [] reply.ret > 0 /\ input_state \in {LMTP_INPUT_STATE_LHLO,
                                               LMTP_INPUT_STATE_MAIL_FROM} ->
               IF reply.code # 250
               THEN fail
               ELSE /\ read
                    /\ input_state' = input_state + 1
                    /\ lmtp_client_send_rcpts(recipients)
                    /\ UNCHANGED <<protocol, global_fail_string, recipients,
                                   rcpt_next_receive_idx, rcpt_next_data_idx,
                                   conn, dot, callbacks, panicked>>
          [] reply.ret > 0 /\ input_state = LMTP_INPUT_STATE_RCPT_TO ->
               /\ read
               /\ lmtp_client_rcpt_next(text)
               /\ IF rcpt_next_ret
                  THEN /\ input_state' = input_state + 1
                       /\ lmtp_output' = Append(lmtp_output,
                                                OutCmd("DATA", NULL))
                  ELSE UNCHANGED <<input_state, lmtp_output>>
               /\ UNCHANGED <<protocol, global_fail_string,
                              rcpt_next_data_idx, rcpt_next_send_idx, conn,
                              dot>>
          [] reply.ret > 0 /\ input_state = LMTP_INPUT_STATE_DATA_CONTINUE ->
               IF ~starts_354(text)
               THEN fail
               ELSE /\ read
                    /\ input_state' = input_state + 1
                    /\ lmtp_client_send_data(data_left, n, eof, full)
                    /\ UNCHANGED <<protocol, global_fail_string, recipients,
                                   idxs, conn, lmtp_output, callbacks,
                                   panicked>>
          [] reply.ret > 0 /\ input_state = LMTP_INPUT_STATE_DATA ->
               /\ read
               /\ lmtp_client_data_next(text)
               /\ UNCHANGED <<protocol, input_state, global_fail_string,
                              rcpt_next_receive_idx, rcpt_next_send_idx,
                              conn, lmtp_output, dot>>

\* lmtp_client_input: the io callback while connected, for one line of the
\* stream; lines that arrive together are read by consecutive steps.
lmtp_client_input ==
    /\ ~panicked
    /\ lmtp_io = "lmtp_client_input"
    /\ lmtp_input # <<>>
    /\ \E n \in 0 .. Len(data_left), eof \in BOOLEAN, full \in BOOLEAN :
          lmtp_client_input_line(Head(lmtp_input).text, n, eof, full)
    /\ UNCHANGED <<server, push_notification, send_called, upstream>>

\* lmtp_client_output: the flush callback of the output stream.
lmtp_client_output ==
    /\ ~panicked
    /\ fd # -1
    /\ \E failed \in BOOLEAN :
          IF failed
          THEN lmtp_client_fail(ERRSTR_DISCONNECTED)
          ELSE /\ IF input_state = LMTP_INPUT_STATE_DATA
                  THEN \E n \in 0 .. Len(data_left), eof \in BOOLEAN,
                          full \in BOOLEAN :
                          lmtp_client_send_data(data_left, n, eof, full)
                  ELSE UNCHANGED dot
               /\ UNCHANGED <<protocol, input_state, global_fail_string,
                              recipients, idxs, conn, lmtp_output,
                              lmtp_input, callbacks>>
    /\ UNCHANGED <<server, push_notification, send_called, upstream, panicked>>

\* lmtp_client_send_more: the caller has more of the body to give.
lmtp_client_send_more ==
    /\ ~panicked
    /\ lmtp_data_input # NoObject
    /\ IF input_state = LMTP_INPUT_STATE_DATA
       THEN \E n \in 0 .. Len(data_left), eof \in BOOLEAN, full \in BOOLEAN :
               lmtp_client_send_data(data_left, n, eof, full)
       ELSE UNCHANGED dot
    /\ UNCHANGED <<server, push_notification, protocol, input_state, global_fail_string,
                   recipients, idxs, conn, lmtp_output, lmtp_input,
                   callbacks, send_called, upstream, panicked>>

\* lmtp_client_add_rcpt(client, address, ...).
lmtp_client_add_rcpt ==
    /\ ~panicked
    /\ Len(recipients) < MaxClientRcpts
    /\ LET rcpts == Append(recipients,
                           lmtp_rcpt(Address(Len(recipients) + 1)))
       IN  /\ recipients' = rcpts
           /\ IF global_fail_string # NoObject
              THEN /\ callbacks' =
                        Append(callbacks,
                               Callback("rcpt_to", Len(rcpts), FALSE,
                                        global_fail_string[1]))
                   /\ UNCHANGED <<lmtp_output, rcpt_next_send_idx>>
              ELSE IF input_state = LMTP_INPUT_STATE_RCPT_TO
              THEN /\ lmtp_client_send_rcpts(rcpts)
                   /\ UNCHANGED callbacks
              ELSE UNCHANGED <<lmtp_output, rcpt_next_send_idx, callbacks>>
    /\ UNCHANGED <<server, push_notification, protocol, input_state, global_fail_string,
                   rcpt_next_receive_idx, rcpt_next_data_idx, conn,
                   lmtp_input, dot, send_called, upstream, panicked>>

\* lmtp_client_send(client, data_input): the caller gives the body, once,
\* to a client that has a recipient.
lmtp_client_send ==
    /\ ~panicked
    /\ ~send_called
    /\ recipients # <<>>
    /\ send_called' = TRUE
    /\ \E body \in ClientBodies :
          IF global_fail_string # NoObject
          THEN lmtp_client_fail(global_fail_string[1])
          ELSE /\ lmtp_data_input' = Object(body)
               /\ data_left' = body
               /\ IF rcpt_next_receive_idx = Len(recipients)
                  THEN /\ input_state' = input_state + 1
                       /\ lmtp_output' = Append(lmtp_output,
                                                OutCmd("DATA", NULL))
                  ELSE UNCHANGED <<input_state, lmtp_output>>
               /\ UNCHANGED <<protocol, global_fail_string, recipients,
                              idxs, fd, lmtp_io, lmtp_input, output_last,
                              output_finished, body_output, callbacks>>
    /\ UNCHANGED <<server, push_notification, upstream, panicked>>

(***************************************************************************)
(* The server at the other end.  It greets, answers each command line in   *)
(* turn, and answers the body when it has seen its end: one reply for each *)
(* accepted recipient in LMTP, one reply in SMTP.  It may also send a line *)
(* that is no reply, and it may refuse anything.                           *)
(***************************************************************************)
Text(a, b, c, sep) == <<a, b, c, sep>>
T220 == Text("2", "2", "0", " ")
T250 == Text("2", "5", "0", " ")
T250more == Text("2", "5", "0", "-")
T354 == Text("3", "5", "4", " ")
T451 == Text("4", "5", "1", " ")
T452 == Text("4", "5", "2", " ")
T503 == Text("5", "0", "3", " ")
T550 == Text("5", "5", "0", " ")
T554 == Text("5", "5", "4", " ")
Tshort == <<"2", "5", "0">>
Tjunk == Text("2", "5", "x", " ")

upstream_greet ==
    /\ ~panicked
    /\ fd # -1
    /\ ~upstream.greeted
    /\ \E text \in {T220, T554, Tshort} :
          lmtp_input' = Append(lmtp_input, Line(text, "greet", NULL))
    /\ upstream' = [upstream EXCEPT !.greeted = TRUE]
    /\ UNCHANGED <<server, push_notification, protocol, input_state, global_fail_string,
                   recipients, idxs, conn, lmtp_output, dot, callbacks,
                   send_called, panicked>>

\* The replies the server can give to the command line cmd, each with the
\* server's state after it.
upstream_replies(cmd) ==
    CASE cmd.kind \in {"LHLO", "EHLO"} ->
           {[lines |-> <<Line(T250, cmd.kind, NULL)>>, up |-> upstream],
            [lines |-> <<Line(T250more, cmd.kind, NULL),
                         Line(T250, cmd.kind, NULL)>>, up |-> upstream],
            [lines |-> <<Line(T554, cmd.kind, NULL)>>, up |-> upstream]}
      [] cmd.kind = "MAIL" ->
           {[lines |-> <<Line(T250, "MAIL", NULL)>>,
             up |-> [upstream EXCEPT !.mail = TRUE]],
            [lines |-> <<Line(T451, "MAIL", NULL)>>, up |-> upstream],
            [lines |-> <<Line(Tjunk, "MAIL", NULL)>>, up |-> upstream]}
      [] cmd.kind = "RCPT" ->
           IF upstream.mail
           THEN {[lines |-> <<Line(T250, "RCPT", cmd.arg)>>,
                  up |-> [upstream EXCEPT
                             !.accepted = Append(@, cmd.arg)]],
                 [lines |-> <<Line(T550, "RCPT", cmd.arg)>>,
                  up |-> upstream]}
           ELSE {[lines |-> <<Line(T503, "RCPT", cmd.arg)>>,
                  up |-> upstream]}
      [] cmd.kind = "DATA" ->
           IF upstream.accepted # <<>>
           THEN {[lines |-> <<Line(T354, "DATA", NULL)>>, up |-> upstream]}
           ELSE {[lines |-> <<Line(T503, "DATA", NULL)>>, up |-> upstream]}

upstream_reply ==
    /\ ~panicked
    /\ fd # -1
    /\ upstream.greeted
    /\ upstream.read < Len(lmtp_output)
    /\ \E r \in upstream_replies(lmtp_output[upstream.read + 1]) :
          /\ lmtp_input' = lmtp_input \o r.lines
          /\ upstream' = [r.up EXCEPT !.read = @ + 1]
    /\ UNCHANGED <<server, push_notification, protocol, input_state, global_fail_string,
                   recipients, idxs, conn, lmtp_output, dot, callbacks,
                   send_called, panicked>>

\* The server has the whole body: its replies to it.
upstream_data ==
    /\ ~panicked
    /\ fd # -1
    /\ output_finished
    /\ ~upstream.body
    /\ upstream.read = Len(lmtp_output)
    /\ upstream.accepted # <<>>
    /\ IF protocol = "lmtp"
       THEN \E res \in [1 .. Len(upstream.accepted) -> {T250, T452}] :
               lmtp_input' = lmtp_input
                  \o [k \in 1 .. Len(upstream.accepted) |->
                        Line(res[k], "BODY", upstream.accepted[k])]
       ELSE \E text \in {T250, T452} :
               lmtp_input' = Append(lmtp_input, Line(text, "BODY", NULL))
    /\ upstream' = [upstream EXCEPT !.body = TRUE]
    /\ UNCHANGED <<server, push_notification, protocol, input_state, global_fail_string,
                   recipients, idxs, conn, lmtp_output, dot, callbacks,
                   send_called, panicked>>

\* A session that is about to proxy: its outbound client is created.
InitClient ==
    /\ trusted = FALSE
    /\ set_lmtp_proxy = TRUE
    /\ set_limit = 0
    /\ local_port = LMTP_PORT
    /\ lmtp_hdr_delivery_address = LMTP_HDR_DELIVERY_ADDRESS_FINAL
    /\ mail_max_lock_timeout = 0
    /\ SessionCreated
    /\ NoCalls
    /\ added_headers = NoObject
    /\ NoBody
    /\ NoFanout
    /\ NoPushNotification
    /\ lmtp_client_init
    /\ data_left = <<>>

NextClient ==
    \/ lmtp_client_connect_tcp
    \/ lmtp_client_wait_connect
    \/ lmtp_client_input
    \/ lmtp_client_output
    \/ lmtp_client_send_more
    \/ lmtp_client_add_rcpt
    \/ lmtp_client_send
    \/ upstream_greet
    \/ upstream_reply
    \/ upstream_data

ClientSpec == InitClient /\ [][NextClient]_vars

(***************************************************************************)
(* Reading the replies, in the words of the protocol.                      *)
(***************************************************************************)
ThreeDigits(text) ==
    /\ Len(text) >= 4
    /\ \A k \in 1 .. 3 : text[k] \in {DigitChars[d] : d \in 1 .. 10}
IsFinalReply(text) == ThreeDigits(text) /\ text[4] = " "
IsContinuation(text) == ThreeDigits(text) /\ text[4] = "-"
ReplyCode(text) == <<text[1], text[2], text[3]>>

\* The final reply on which the client leaves a phase of the handshake.
HandshakePhases ==
    {LMTP_INPUT_STATE_GREET, LMTP_INPUT_STATE_LHLO,
     LMTP_INPUT_STATE_MAIL_FROM, LMTP_INPUT_STATE_DATA_CONTINUE}
ExpectedReply(state) ==
    CASE state = LMTP_INPUT_STATE_GREET -> <<"2", "2", "0">>
      [] state = LMTP_INPUT_STATE_LHLO -> <<"2", "5", "0">>
      [] state = LMTP_INPUT_STATE_MAIL_FROM -> <<"2", "5", "0">>
      [] state = LMTP_INPUT_STATE_DATA_CONTINUE -> <<"3", "5", "4">>

\* The step fails the client because of the connection, not of a line.
ConnFailure ==
    /\ global_fail_string = NoObject
    /\ global_fail_string' \in {Object(ERRSTR_CONNECT),
                                Object(ERRSTR_DISCONNECTED)}

\* The step is the client reading the first line of lmtp_input.
LineRead ==
    /\ lmtp_input' # lmtp_input
    /\ upstream' = upstream
    /\ ~ConnFailure

\* The step takes the failure path for the line text.
FailsWith(text) ==
    /\ global_fail_string' = Object(text)
    /\ fd' = -1
    /\ lmtp_io' = NULL
    /\ input_state' = input_state

CallbacksOf(cb, i) == SelectSeq(callbacks, LAMBDA c : c.cb = cb /\ c.rcpt = i)

\* The RCPT reply of the recipient i is outstanding; its RCPT succeeded and
\* its DATA reply is outstanding.
RcptOutstanding(i) == CallbacksOf("rcpt_to", i) = <<>>
DataOutstanding(i) ==
    /\ CallbacksOf("rcpt_to", i) # <<>>
    /\ \A k \in 1 .. Len(CallbacksOf("rcpt_to", i)) :
          CallbacksOf("rcpt_to", i)[k].success
    /\ CallbacksOf("data", i) = <<>>

\* The callbacks the step has made.
NewCallbacks == SubSeq(callbacks', Len(callbacks) + 1, Len(callbacks'))

\* The step is the client failing: the failure string is set, the pending
\* callbacks and no others are made with success = FALSE, and the
\* connection is closed.
FailsAsClaimed ==
    (global_fail_string = NoObject /\ global_fail_string' # NoObject)
       => /\ \A i \in 1 .. Len(recipients) :
                /\ RcptOutstanding(i)
                     <=> \E k \in 1 .. Len(NewCallbacks) :
                            /\ NewCallbacks[k].cb = "rcpt_to"
                            /\ NewCallbacks[k].rcpt = i
                /\ DataOutstanding(i)
                     <=> \E k \in 1 .. Len(NewCallbacks) :
                            /\ NewCallbacks[k].cb = "data"
                            /\ NewCallbacks[k].rcpt = i
          /\ Len(NewCallbacks) <= Len(recipients)
          /\ \A k \in 1 .. Len(NewCallbacks) :
                /\ ~NewCallbacks[k].success
                /\ NewCallbacks[k].line = global_fail_string'[1]
          /\ fd' = -1
          /\ lmtp_io' = NULL
          /\ lmtp_input' = <<>>

\* After the failure a recipient that was answered gets no more callbacks.
AnsweredStayAnswered ==
    global_fail_string # NoObject
       => /\ \A k \in 1 .. Len(NewCallbacks) :
                /\ ~NewCallbacks[k].success
                /\ CallbacksOf("rcpt_to", NewCallbacks[k].rcpt) = <<>>
                /\ CallbacksOf("data", NewCallbacks[k].rcpt) = <<>>
          /\ UNCHANGED <<fd, lmtp_io, lmtp_input>>

\* C24: when the outbound client fails, the failure string is set, each
\* recipient whose RCPT reply is outstanding gets its RCPT callback with
\* success = FALSE, each recipient whose RCPT succeeded and whose DATA
\* reply is outstanding gets its data callback with success = FALSE, the
\* connection is closed, and from then on no recipient that was answered
\* gets a further callback.
C24_FailurePath == [][FailsAsClaimed /\ AnsweredStayAnswered]_vars

(***************************************************************************)
(* The DATA command.                                                       *)
(***************************************************************************)
DataCmds(out) == SelectSeq(out, LAMBDA c : c.kind = "DATA")

\* The client is in its RCPT phase with the body and has not failed.
ReadyButForRcpts ==
    /\ input_state = LMTP_INPUT_STATE_RCPT_TO
    /\ lmtp_data_input # NoObject
    /\ global_fail_string = NoObject

BodyReplyRead ==
    /\ LineRead
    /\ Head(lmtp_input).cmd = "BODY"
    /\ IsFinalReply(Head(lmtp_input).text)

DataCallbacks(log) == SelectSeq(log, LAMBDA c : c.cb = "data")

\* C26: in LMTP mode each reply to the body goes to the data callback of
\* the recipient the server gave it for, with success iff it starts with
\* '2'; the data callbacks are made in the order the recipients were
\* added; and when the reply for the last accepted recipient is read, every
\* recipient having been sent, the client has no data reply left to wait
\* for.
C26_OwnDataReply ==
    [][(protocol = "lmtp" /\ BodyReplyRead)
         => LET line == Head(lmtp_input)
                log == DataCallbacks(callbacks')
            IN  /\ Len(NewCallbacks) = 1
                /\ NewCallbacks[1].cb = "data"
                /\ NewCallbacks[1].rcpt \in 1 .. Len(recipients)
                /\ recipients[NewCallbacks[1].rcpt].address = line.about
                /\ NewCallbacks[1].success <=> line.text[1] = "2"
                /\ NewCallbacks[1].line = line.text
                /\ \A j, k \in 1 .. Len(log) :
                      j < k => log[j].rcpt < log[k].rcpt
                /\ (/\ line.about = upstream.accepted[Len(upstream.accepted)]
                    /\ rcpt_next_send_idx = Len(recipients))
                      => rcpt_next_data_idx' = Len(recipients')]_vars

\* C27: in SMTP mode the reply to the body is given to the data callback
\* of every recipient, in one step, with success iff it starts with '2';
\* after it the client waits for no further data reply; and no recipient
\* ever has more than one data callback.
C27_SmtpBroadcast ==
    [][protocol = "smtp"
         => /\ BodyReplyRead
                 => LET text == Head(lmtp_input).text
                    IN  /\ NewCallbacks =
                              [i \in 1 .. Len(recipients) |->
                                 Callback("data", i, text[1] = "2", text)]
                        /\ rcpt_next_data_idx' = Len(recipients')
                        /\ global_fail_string' = NoObject
            /\ \A i \in 1 .. Len(recipients') :
                  Len(SelectSeq(callbacks',
                                LAMBDA c : c.cb = "data" /\ c.rcpt = i)) <= 1]_vars

\* Two recipients have both had the one reply to the body, a success.
C27_Witness ==
    /\ protocol = "smtp"
    /\ Len(recipients) = 2
    /\ rcpt_next_data_idx = 2
    /\ global_fail_string = NoObject
    /\ Len(DataCallbacks(callbacks)) = 2
    /\ \A k \in 1 .. 2 : /\ DataCallbacks(callbacks)[k].rcpt = k
                         /\ DataCallbacks(callbacks)[k].success

(***************************************************************************)
(* Sending the body.  The client has sent DATA for one recipient and the   *)
(* 354 is about to be read; the body is any byte sequence of at most       *)
(* MaxBody bytes in which every CR is followed by LF, and the stream gives *)
(* it in any pieces.                                                       *)
(***************************************************************************)
BodyBytes == {"a", ".", CR, LF}

RECURSIVE SeqsUpTo(_)
SeqsUpTo(n) ==
    IF n = 0 THEN {<<>>}
    ELSE LET shorter == SeqsUpTo(n - 1)
         IN  shorter \cup {Append(b, c) : b \in shorter, c \in BodyBytes}

NoBareCR(b) ==
    \A k \in 1 .. Len(b) : b[k] = CR => (k < Len(b) /\ b[k + 1] = LF)

Bodies == {b \in SeqsUpTo(MaxBody) : NoBareCR(b)}

InitDot ==
    /\ trusted = FALSE
    /\ set_lmtp_proxy = TRUE
    /\ set_limit = 0
    /\ local_port = LMTP_PORT
    /\ lmtp_hdr_delivery_address = LMTP_HDR_DELIVERY_ADDRESS_FINAL
    /\ mail_max_lock_timeout = 0
    /\ SessionCreated
    /\ NoCalls
    /\ added_headers = NoObject
    /\ NoBody
    /\ NoFanout
    /\ NoPushNotification
    /\ protocol = "lmtp"
    /\ input_state = LMTP_INPUT_STATE_DATA_CONTINUE
    /\ global_fail_string = NoObject
    /\ recipients = <<lmtp_rcpt(Address(1))>>
    /\ rcpt_next_receive_idx = 1
    /\ rcpt_next_data_idx = 0
    /\ rcpt_next_send_idx = 1
    /\ \E b \in Bodies : /\ lmtp_data_input = Object(b)
                         /\ data_left = b
    /\ fd = 0
    /\ lmtp_output = lmtp_client_send_handshake
                       \o <<OutCmd("RCPT", Address(1)), OutCmd("DATA", NULL)>>
    /\ lmtp_input = <<Line(T354, "DATA", NULL)>>
    /\ lmtp_io = "lmtp_client_input"
    /\ output_last = NUL
    /\ output_finished = FALSE
    /\ body_output = <<>>
    /\ callbacks = <<Callback("rcpt_to", 1, TRUE, T250)>>
    /\ send_called = TRUE
    /\ upstream = [greeted |-> TRUE, read |-> 4, mail |-> TRUE,
                   accepted |-> <<Address(1)>>, body |-> FALSE]
    /\ panicked = FALSE

NextDot ==
    \/ lmtp_client_input
    \/ lmtp_client_send_more
    \/ lmtp_client_output

DotSpec == InitDot /\ [][NextDot]_vars

\* The body with each LF that lacks its CR given one.
RECURSIVE Normalise(_, _)
Normalise(b, last) ==
    IF b = <<>> THEN <<>>
    ELSE (IF b[1] = LF /\ last # CR THEN <<CR, LF>> ELSE <<b[1]>>)
           \o Normalise(Tail(b), b[1])

\* Dot-stuffing: each line that begins with '.' gets one more '.'; bol
\* says that the text is at the beginning of a line.
RECURSIVE Stuff(_, _)
Stuff(b, bol) ==
    IF b = <<>> THEN <<>>
    ELSE (IF bol /\ b[1] = "." THEN <<".", ".">> ELSE <<b[1]>>)
           \o Stuff(Tail(b), b[1] = LF)

\* Dot-unstuffing as the receiver does it: the text up to the line that is
\* a single '.', the first '.' of every other line that begins with one
\* removed.
RECURSIVE Unstuff(_, _)
Unstuff(t, bol) ==
    IF t = <<>> THEN <<>>
    ELSE IF bol /\ t[1] = "."
    THEN IF Len(t) >= 3 /\ t[2] = CR /\ t[3] = LF THEN <<>>
         ELSE IF Len(t) >= 2
              THEN <<t[2]>> \o Unstuff(Tail(Tail(t)), t[2] = LF)
              ELSE <<>>
    ELSE <<t[1]>> \o Unstuff(Tail(t), t[1] = LF)

EndsWithLF(b) == b # <<>> /\ b[Len(b)] = LF
WithLineBreak(b) == IF EndsWithLF(b) THEN b ELSE b \o <<CR, LF>>
Terminator == <<".", CR, LF>>

\* C28: when the whole body B was sent, the bytes sent are B with each
\* bare LF made CRLF and each line that begins with '.', the first line
\* included, given one more '.', then CRLF if B did not end with a line
\* break, then '.' CRLF; and dot-unstuffing them gives the normalised B
\* (with that line break) again.
C28_DotStuffing ==
    (output_finished /\ lmtp_data_input # NoObject /\ data_left = <<>>)
       => LET B == Normalise(lmtp_data_input[1], NUL)
          IN  /\ body_output = Stuff(WithLineBreak(B), TRUE) \o Terminator
              /\ Unstuff(body_output, TRUE) = WithLineBreak(B)
              /\ Len(body_output) >= 5
              /\ SubSeq(body_output, Len(body_output) - 4, Len(body_output))
                    = <<CR, LF>> \o Terminator

\* C29: in SMTP mode a recipient that was appended after DATA was sent (its
\* RCPT was never sent: it is behind rcpt_next_send_idx) has no data
\* callback.
C29_LateRcptNoDataCallback ==
    (protocol = "smtp" /\ DataCmds(lmtp_output) # <<>>)
       => \A i \in 1 .. Len(recipients) :
             i > rcpt_next_send_idx => CallbacksOf("data", i) = <<>>

(***************************************************************************)
(* The RCPT TO commands.                                                   *)
(***************************************************************************)
RcptCmds(out) == SelectSeq(out, LAMBDA c : c.kind = "RCPT")

\* The RCPT TO lines written are those of the first rcpt_next_send_idx
\* recipients, once each and in the order they were added.
RcptsSentInOrder ==
    /\ rcpt_next_send_idx <= Len(recipients)
    /\ RcptCmds(lmtp_output) =
          [i \in 1 .. rcpt_next_send_idx |->
             OutCmd("RCPT", recipients[i].address)]

\* C30: on a client that has not failed, the RCPT TO lines sent are those
\* of the recipients in the order they were added, each once; in the RCPT
\* phase every recipient added so far has been sent, whether it was added
\* before the connection, during the handshake or in the RCPT phase; and
\* so it is when DATA is sent.
C30_EachRcptSentOnce ==
    [][/\ RcptsSentInOrder'
       /\ (input_state' = LMTP_INPUT_STATE_RCPT_TO
             /\ global_fail_string' = NoObject)
            => rcpt_next_send_idx' = Len(recipients')
       /\ Len(DataCmds(lmtp_output')) > Len(DataCmds(lmtp_output))
            => rcpt_next_send_idx' = Len(recipients')]_vars

\* Three recipients have had their RCPT TO sent in the RCPT phase; the
\* first is answered, the server has not read the other two yet.
C30_Witness ==
    /\ input_state = LMTP_INPUT_STATE_RCPT_TO
    /\ global_fail_string = NoObject
    /\ Len(recipients) = 3
    /\ rcpt_next_send_idx = 3
    /\ rcpt_next_receive_idx = 1
    /\ upstream.read = 3
    /\ Len(RcptCmds(lmtp_output)) = 3

(***************************************************************************)
(* MAIL FROM with parameters.  The session has had its LHLO and the next   *)
(* one or two lines are MAIL commands: with a valid or an invalid address  *)
(* and up to MaxMailParams parameters after it.                            *)
(***************************************************************************)
MaxMailParams == 2

MailParams == {"BODY=7BIT", "BODY=8BITMIME", "SIZE=1"}

RECURSIVE MailParamLists(_)
MailParamLists(n) ==
    IF n = 0 THEN {<<>>}
    ELSE LET shorter == MailParamLists(n - 1)
         IN  shorter \cup {Append(l, x) : l \in shorter, x \in MailParams}

MailLines ==
    {Cmd("MAIL", [ok |-> TRUE, addr |-> "s1", params |-> l]) :
        l \in MailParamLists(MaxMailParams)}
    \cup {Cmd("MAIL", [ok |-> FALSE, addr |-> "", params |-> <<>>])}

InitMail ==
    /\ trusted = FALSE
    /\ set_lmtp_proxy = TRUE
    /\ set_limit = 0
    /\ local_port = LMTP_PORT
    /\ lmtp_hdr_delivery_address = LMTP_HDR_DELIVERY_ADDRESS_FINAL
    /\ mail_max_lock_timeout = 0
    /\ lhlo = "h1"
    /\ proxy_ttl = LMTP_PROXY_DEFAULT_TTL
    /\ proxy_timeout_secs = 0
    /\ remote_ip = "10.0.0.9"
    /\ remote_port = 50000
    /\ mail_from = NULL
    /\ mail_body_7bit = FALSE
    /\ mail_body_8bitmime = FALSE
    /\ rcpt_to = <<>>
    /\ output = <<Reply(1, "250 PIPELINING", 0)>>
    /\ \E a \in MailLines :
          \/ input = <<a>> /\ nsent = 2
          \/ \E b \in MailLines : input = <<a, b>> /\ nsent = 3
    /\ added_headers = NoObject
    /\ proxy = NoObject
    /\ anvil_query = NoObject
    /\ io = "client_input"
    /\ handling = TRUE
    /\ proxy_running = FALSE
    /\ destroyed = FALSE
    /\ wire = <<>>
    /\ ext = <<>>
    /\ NoCalls
    /\ NoBody
    /\ NoFanout
    /\ NoPushNotification
    /\ NoLmtpClient

MailSpec == InitMail /\ [][cmd_mail]_vars

\* The reply the step has written is a 501.
Replies501 ==
    /\ Len(output') = Len(output) + 1
    /\ output'[Len(output')].code \in {"501 5.5.4 Invalid parameters",
                                       "501 5.5.4 Unsupported options"}

\* The reply the step has written is the 250 of MAIL FROM.
Replies250 ==
    /\ Len(output') = Len(output) + 1
    /\ output'[Len(output')].code = "250 2.1.0 OK"

BodyArg(params) ==
    IF \E k \in 1 .. Len(params) : params[k] = "BODY=8BITMIME"
    THEN " BODY=8BITMIME"
    ELSE IF \E k \in 1 .. Len(params) : params[k] = "BODY=7BIT"
    THEN " BODY=7BIT"
    ELSE ""

\* C33: a MAIL FROM answered with 501 leaves the sender and the body-type
\* hints as they were, and the BODY parameter the proxy is given after an
\* accepted MAIL FROM is the one of that command.
C33_RejectedMailChangesNothing ==
    [][/\ Replies501
            => UNCHANGED <<mail_from, mail_body_7bit, mail_body_8bitmime>>
       /\ Replies250
            => lmtp_proxy_init'.mail_from
                  = <<Head(input).arg.addr, BodyArg(Head(input).arg.params)>>]_vars

\* The XCLIENT line at the head of the input has a parameter with this key.
Names(key) ==
    \E i \in 1 .. Len(Head(input).arg) : Head(input).arg[i].key = key

(***************************************************************************)
(* C34: an accepted XCLIENT (answered with the 220 greeting) changes only  *)
(* the session attributes whose keys it supplies: the remote address       *)
(* (ADDR), the remote port (PORT), the proxy TTL (TTL) and the peer's      *)
(* timeout (TIMEOUT) each keep their value when the command does not name  *)
(* them.                                                                   *)
(***************************************************************************)
C34_UnnamedAttributesKept ==
    [][HandlesHead("XCLIENT") /\ AnswersHead("220 greeting")
        => /\ ~Names("ADDR") => UNCHANGED remote_ip
           /\ ~Names("PORT") => UNCHANGED remote_port
           /\ ~Names("TTL") => UNCHANGED proxy_ttl
           /\ ~Names("TIMEOUT") => UNCHANGED proxy_timeout_secs]_vars

\* The client has failed; it has had its last data reply.
ClientFailed == global_fail_string # NoObject
ClientFinished ==
    /\ input_state = LMTP_INPUT_STATE_DATA
    /\ rcpt_next_data_idx = Len(recipients)

(***************************************************************************)
(* C35: whatever the order of lmtp_client_add_rcpt, lmtp_client_send, the  *)
(* replies and the failures, the rcpt_to callback of a recipient is never  *)
(* made twice, and once the client has failed or has had its last data     *)
(* reply it has been made once for every recipient, those added after a    *)
(* failure included.                                                       *)
(***************************************************************************)
C35_RcptCallbackExactlyOnce ==
    \A i \in 1 .. Len(recipients) :
       /\ Len(CallbacksOf("rcpt_to", i)) <= 1
       /\ ClientFailed \/ ClientFinished
            => Len(CallbacksOf("rcpt_to", i)) = 1

\* Before the k-th callback of this step is made, the rcpt_to callback of
\* the recipient i has been made with success = FALSE.
RcptRejectedBefore(i, k) ==
    \E j \in 1 .. Len(callbacks) + k - 1 :
       /\ callbacks'[j].cb = "rcpt_to"
       /\ callbacks'[j].rcpt = i
       /\ ~callbacks'[j].success

(***************************************************************************)
(* C36: a recipient whose rcpt_to callback was made with success = FALSE   *)
(* gets no data callback afterwards, in LMTP mode and in SMTP mode.        *)
(***************************************************************************)
C36_RejectedGetsNoDataCallback ==
    [][\A k \in 1 .. Len(NewCallbacks) :
          NewCallbacks[k].cb = "data"
             => ~RcptRejectedBefore(NewCallbacks[k].rcpt, k)]_vars

(***************************************************************************)
(* The outbound client with a server that keeps to no protocol: it may     *)
(* send any reply line at any time while the connection is open, up to     *)
(* MaxUnread lines ahead of the client.                                    *)
(***************************************************************************)
MaxUnread == 1

AnyTexts == {T220, T250, T250more, T354, T550}

upstream_any ==
    /\ ~panicked
    /\ fd # -1
    /\ Len(lmtp_input) < MaxUnread
    /\ \E text \in AnyTexts :
          lmtp_input' = Append(lmtp_input, Line(text, "any", NULL))
    /\ UNCHANGED <<server, push_notification, protocol, input_state, global_fail_string,
                   recipients, idxs, conn, lmtp_output, dot, callbacks,
                   send_called, upstream, panicked>>

NextAnyUpstream ==
    \/ lmtp_client_connect_tcp
    \/ lmtp_client_wait_connect
    \/ lmtp_client_input
    \/ lmtp_client_output
    \/ lmtp_client_send_more
    \/ lmtp_client_add_rcpt
    \/ lmtp_client_send
    \/ upstream_any

AnyUpstreamSpec == InitClient /\ [][NextAnyUpstream]_vars

\* The step is lmtp_client_input taking the final reply at the head of
\* lmtp_input.
FinalReplyTaken ==
    /\ ~panicked
    /\ lmtp_io = "lmtp_client_input"
    /\ lmtp_input # <<>>
    /\ IsFinalReply(Head(lmtp_input).text)
    /\ lmtp_input' = Tail(lmtp_input)
    /\ ~ConnFailure

\* The recipient cursor the step uses for the reply it takes.
UsesRcptCursor ==
    FinalReplyTaken /\ input_state = LMTP_INPUT_STATE_RCPT_TO
UsesDataCursor ==
    /\ FinalReplyTaken
    /\ input_state = LMTP_INPUT_STATE_DATA
    /\ protocol = "lmtp"

\* C37: in every state of the outbound client rcpt_next_data_idx <=
\* rcpt_next_receive_idx <= the number of recipients and rcpt_next_send_idx
\* <= the number of recipients; and the cursor with which a reply is given
\* to a recipient, in the RCPT phase and in the DATA phase, is the index of
\* a recipient that exists and whose RCPT TO was sent, whatever reply lines
\* the server sends and in whatever order.
C37_CursorsInRange ==
    [][/\ rcpt_next_data_idx' <= rcpt_next_receive_idx'
       /\ rcpt_next_receive_idx' <= Len(recipients')
       /\ rcpt_next_send_idx' <= Len(recipients')
       /\ UsesRcptCursor
            => /\ rcpt_next_receive_idx < Len(recipients)
               /\ rcpt_next_receive_idx < rcpt_next_send_idx
       /\ UsesDataCursor
            => /\ rcpt_next_data_idx < Len(recipients)
               /\ rcpt_next_data_idx < rcpt_next_send_idx]_vars

\* C39: in SMTP mode rcpt_next_data_idx is 0, as lmtp_client_data_next
\* asserts, every time a final reply is taken in state DATA, however many
\* final reply lines the server sends after the body.
C39_SmtpAssertHolds ==
    [][/\ FinalReplyTaken
       /\ input_state = LMTP_INPUT_STATE_DATA
       /\ protocol = "smtp"
       => rcpt_next_data_idx = 0]_vars

(***************************************************************************)
(* The outbound client under a fair schedule: the io loop runs every       *)
(* callback that stays ready, the caller connects and gives the body, the  *)
(* server answers what it has received, and the body stream and the        *)
(* socket let the whole body through in the end.                           *)
(***************************************************************************)
\* lmtp_client_output gets the rest of the body and the terminator out.
body_flushed == lmtp_client_output /\ ~output_finished /\ output_finished'

FairClientSpec ==
    /\ ClientSpec
    /\ WF_vars(lmtp_client_connect_tcp)
    /\ WF_vars(lmtp_client_wait_connect)
    /\ WF_vars(lmtp_client_input)
    /\ WF_vars(lmtp_client_send)
    /\ WF_vars(body_flushed)
    /\ WF_vars(upstream_greet)
    /\ WF_vars(upstream_reply)
    /\ WF_vars(upstream_data)

\* The recipient i has its final outcome: a failed rcpt_to callback or a
\* data callback.
FinalOutcome(i) ==
    \/ \E k \in 1 .. Len(callbacks) :
          /\ callbacks[k].cb = "rcpt_to"
          /\ callbacks[k].rcpt = i
          /\ ~callbacks[k].success
    \/ CallbacksOf("data", i) # <<>>

\* Every recipient whose RCPT TO was sent has its final outcome.
SentRcptsSettled == \A i \in 1 .. rcpt_next_send_idx : FinalOutcome(i)

SentAtOnce(body) ==
    LET loop == send_data_loop(body, NUL, <<>>, FALSE)
    IN  loop.out \o (IF loop.last # LF THEN <<CR, LF>> ELSE <<>>)
                 \o Terminator

(***************************************************************************)
(* C38: the terminator of the body is written once, and only when every    *)
(* byte of the body stream has been read and sent; what is sent by then    *)
(* does not depend on how the stream hands the body over or on where       *)
(* lmtp_client_send_data returns to continue later; and once it is         *)
(* written, lmtp_client_send_more and the flush callback write no more.    *)
(***************************************************************************)
C38_TerminatorOnceAfterBody ==
    [][/\ output_finished' /\ lmtp_data_input # NoObject
          => /\ data_left' = <<>>
             /\ body_output' = SentAtOnce(lmtp_data_input[1])
       /\ output_finished
          => output_finished' /\ body_output' = body_output]_vars

(***************************************************************************)
(* The push-notification plugin: its transactions and the begin_txn and    *)
(* end_txn hooks of the configured drivers.  The notify plugin begins a    *)
(* transaction and later commits it or rolls it back, once; the mailbox    *)
(* events create a transaction and commit it at once.  The events given to *)
(* the drivers between the two hooks are left out.                         *)
(***************************************************************************)
MaxDrivers == 2
MaxTxns == 2

\* A driver: which of the hooks v.begin_txn and v.end_txn it has.
push_notification_driver(b, e) == [begin_txn |-> b, end_txn |-> e]

RECURSIVE DriverLists(_)
DriverLists(n) ==
    IF n = 0 THEN {<<>>}
    ELSE LET shorter == DriverLists(n - 1) IN
         shorter \cup {Append(l, push_notification_driver(b, e)) :
                          l \in shorter, b \in BOOLEAN, e \in BOOLEAN}

HookCall(hook, txn, driver, val) ==
    [hook |-> hook, txn |-> txn, driver |-> driver, val |-> val]

\* The configured drivers, as indices into puser->drivers.
AllDrivers == [d \in 1 .. Len(puser_drivers) |-> d]

\* Mutant of txn_drivers: a driver is kept whatever its begin_txn returned.
txn_drivers_keeps_refused(raw, ret) ==
    IF raw THEN <<>> ELSE AllDrivers

\* ptxn->drivers as push_notification_transaction_create fills it; raw: the
\* user is autocreated and the storage is "raw"; ret[d]: what begin_txn of
\* the driver d returns.
txn_drivers(raw, ret) ==
    IF raw THEN <<>>
    ELSE SelectSeq(AllDrivers,
                   LAMBDA d : ~puser_drivers[d].begin_txn \/ ret[d])

\* The begin_txn calls push_notification_transaction_create makes.
begin_txn_calls(t, raw, ret) ==
    IF raw THEN <<>>
    ELSE LET called == SelectSeq(AllDrivers,
                                 LAMBDA d : puser_drivers[d].begin_txn)
         IN  [k \in 1 .. Len(called) |->
                 HookCall("begin_txn", t, called[k], ret[called[k]])]

\* The end_txn calls push_notification_transaction_end makes for the
\* transaction t whose drivers are drivers.
end_txn_calls(t, drivers, success) ==
    LET called == SelectSeq(drivers, LAMBDA d : puser_drivers[d].end_txn)
    IN  [k \in 1 .. Len(called) |-> HookCall("end_txn", t, called[k], success)]

\* push_notification_transaction_create, ended says how it has ended.
push_notification_transaction_create(raw, ret, ended) ==
    [drivers |-> txn_drivers(raw, ret), raw |-> raw, ended |-> ended]

\* push_notification_transaction_begin.
push_notification_transaction_begin ==
    /\ Len(ptxns) < MaxTxns
    /\ \E raw \in BOOLEAN, ret \in [1 .. Len(puser_drivers) -> BOOLEAN] :
          /\ ptxns' = Append(ptxns,
                             push_notification_transaction_create(
                                 raw, ret, "no"))
          /\ hook_calls' = hook_calls
                             \o begin_txn_calls(Len(ptxns) + 1, raw, ret)
    /\ UNCHANGED <<server, lmtp_client, puser_drivers>>

\* push_notification_transaction_end(ptxn, success).
push_notification_transaction_end(t, success) ==
    /\ hook_calls' = hook_calls
                       \o end_txn_calls(t, ptxns[t].drivers, success)
    /\ ptxns' = [ptxns EXCEPT
                    ![t].ended = IF success THEN "commit" ELSE "rollback"]

push_notification_transaction_commit ==
    /\ \E t \in 1 .. Len(ptxns) :
          /\ ptxns[t].ended = "no"
          /\ push_notification_transaction_end(t, TRUE)
    /\ UNCHANGED <<server, lmtp_client, puser_drivers>>

push_notification_transaction_rollback ==
    /\ \E t \in 1 .. Len(ptxns) :
          /\ ptxns[t].ended = "no"
          /\ push_notification_transaction_end(t, FALSE)
    /\ UNCHANGED <<server, lmtp_client, puser_drivers>>

\* push_notification_mailbox_create, and in the same way _delete, _rename
\* and _subscribe: a transaction is created and committed.
push_notification_mailbox_create ==
    /\ Len(ptxns) < MaxTxns
    /\ \E raw \in BOOLEAN, ret \in [1 .. Len(puser_drivers) -> BOOLEAN] :
          LET t == Len(ptxns) + 1
              ptxn == push_notification_transaction_create(raw, ret,
                                                           "commit")
          IN  /\ ptxns' = Append(ptxns, ptxn)
              /\ hook_calls' = hook_calls
                                 \o begin_txn_calls(t, raw, ret)
                                 \o end_txn_calls(t, ptxn.drivers, TRUE)
    /\ UNCHANGED <<server, lmtp_client, puser_drivers>>

\* A user with up to MaxDrivers drivers configured and no transaction.
InitPush ==
    /\ trusted = FALSE
    /\ set_lmtp_proxy = FALSE
    /\ set_limit = 0
    /\ local_port = LMTP_PORT
    /\ lmtp_hdr_delivery_address = LMTP_HDR_DELIVERY_ADDRESS_FINAL
    /\ mail_max_lock_timeout = 0
    /\ SessionCreated
    /\ NoCalls
    /\ added_headers = NoObject
    /\ NoBody
    /\ NoFanout
    /\ NoLmtpClient
    /\ puser_drivers \in DriverLists(MaxDrivers)
    /\ ptxns = <<>>
    /\ hook_calls = <<>>

NextPush ==
    \/ push_notification_transaction_begin
    \/ push_notification_transaction_commit
    \/ push_notification_transaction_rollback
    \/ push_notification_mailbox_create

PushSpec == InitPush /\ [][NextPush]_vars

\* The calls of the hook made for the driver d in the transaction t.
HookCalls(hook, t, d) ==
    SelectSeq(hook_calls,
              LAMBDA c : c.hook = hook /\ c.txn = t /\ c.driver = d)

\* begin_txn of the driver d returned FALSE in the transaction t.
Refused(t, d) ==
    HookCalls("begin_txn", t, d) = <<HookCall("begin_txn", t, d, FALSE)>>

\* The driver d has no begin_txn, or it returned TRUE in the transaction t.
Accepted(t, d) ==
    \/ ~puser_drivers[d].begin_txn
    \/ HookCalls("begin_txn", t, d) = <<HookCall("begin_txn", t, d, TRUE)>>

\* C40: in every push-notification transaction, a driver that has no
\* begin_txn hook or whose begin_txn returned TRUE has its end_txn hook
\* called once when the transaction ends and not before, with success = TRUE
\* for a commit and FALSE for a rollback; a driver whose begin_txn returned
\* FALSE gets no end_txn call; and the transaction of an autocreated raw
\* user makes no call to any driver.
C40_EndTxnFollowsBeginTxn ==
    \A t \in 1 .. Len(ptxns), d \in 1 .. Len(puser_drivers) :
       /\ ptxns[t].raw
            => /\ HookCalls("begin_txn", t, d) = <<>>
               /\ HookCalls("end_txn", t, d) = <<>>
       /\ Refused(t, d) => HookCalls("end_txn", t, d) = <<>>
       /\ ptxns[t].ended = "no" => HookCalls("end_txn", t, d) = <<>>
       /\ (/\ ~ptxns[t].raw
           /\ Accepted(t, d)
           /\ puser_drivers[d].end_txn
           /\ ptxns[t].ended # "no")
            => HookCalls("end_txn", t, d)
                  = <<HookCall("end_txn", t, d, ptxns[t].ended = "commit")>>

\* A transaction was rolled back in which one driver refused and another,
\* that has an end_txn hook, accepted, and another was committed for a raw
\* user.
C40_Witness ==
    \E t \in 1 .. Len(ptxns), u \in 1 .. Len(ptxns) :
       /\ ptxns[t].ended = "rollback"
       /\ \E d \in 1 .. Len(puser_drivers) : Refused(t, d)
       /\ \E d \in 1 .. Len(puser_drivers) :
             /\ puser_drivers[d].begin_txn
             /\ Accepted(t, d)
             /\ HookCalls("end_txn", t, d) # <<>>
       /\ ptxns[u].raw
       /\ ptxns[u].ended = "commit"
====
